---- MODULE Spec2Model ----
(***************************************************************************)
(* Marxalone/Server4: analytics collector for chat-bot instances.          *)
(*                                                                         *)
(* The repository holds three generations of the same server:              *)
(*   v2.1.0  src/unnamed/part_001  heartbeat-aware, persistent instance ids *)
(*   v1.3.0  src/unnamed/part_000  session tracking and health scores       *)
(*   v2.0.0  src/api/server.js     marxbot_<n> ids                          *)
(* Each keeps the whole dataset in one JSON file which every handler loads, *)
(* modifies and writes back.                                                *)
(*                                                                         *)
(* Time: the v2.1.0 model counts the clock in minutes (the code counts      *)
(* milliseconds); the TIMEOUTS are scaled accordingly.                      *)
(* null / undefined: a value that may be null is a sequence of length <= 1, *)
(* << >> for null and <<v>> for v.                                          *)
(***************************************************************************)
EXTENDS Integers, Sequences, FiniteSets, TLC

(***************************************************************************)
(* Bounds of the model                                                     *)
(***************************************************************************)
\* number of times the clock advances in one behaviour
MaxTicks == 1
\* number of requests and sweeps started in one behaviour, handled one at a time
MaxRequests == 3
\* number of requests and sweeps started in one behaviour, handled interleaved
MaxInterleaved == 2
\* number of store failures (db.json lost, writeFile rejected) in one behaviour
MaxFaults == 2
\* number of requests and sweeps started in one behaviour with store failures
MaxFaultyRequests == 2

(***************************************************************************)
(* v2.1.0 configuration, src/unnamed/part_001 CONFIG.TIMEOUTS (minutes)    *)
(***************************************************************************)
TIMEOUTS_concurrent == 5
TIMEOUTS_heartbeat == 2
TIMEOUTS_disconnected == 1440

(***************************************************************************)
(* Inputs                                                                  *)
(***************************************************************************)
Users == {"u1", "u2"}
\* req.body.userAgent, 'Unknown' when the body has none
UserAgents == {"Unknown"}
Ips == {"ip1"}
\* req.body.reason, 'unknown' when the body has none
Reasons == {"unknown"}
\* req.body.eventType; << >> when the body has none
EventTypes == {<<"message">>, <<"group_update">>, <<"status_update">>,
               <<"message_reaction">>, <<"heartbeat">>, <<"other">>, << >>}
MessageTypes == {<< >>, <<"text">>}
SystemInfos == {"si1"}
\* the six base-36 digits Math.random() contributes to a minted id
RandomSuffixes == {"a", "b"}
\* an instanceId of the caller's own making, never minted by the server
ForeignId == <<0, "x">>
Handlers == {"h1", "h2"}

(***************************************************************************)
(* JavaScript objects used as maps                                         *)
(***************************************************************************)
Has(m, k) == k \in DOMAIN m
Put(m, k, v) == [x \in (DOMAIN m) \cup {k} |-> IF x = k THEN v ELSE m[x]]
\* m[k] = (m[k] || 0) + 1
Inc(m, k) == IF Has(m, k) THEN [m EXCEPT ![k] = @ + 1] ELSE Put(m, k, 1)
Delete(m, ks) == [x \in (DOMAIN m) \ ks |-> m[x]]
\* array.includes(x)
Includes(arr, x) == \E n \in 1..Len(arr) : arr[n] = x
Max(a, b) == IF a >= b THEN a ELSE b
\* x || 0 for a number
OrZero(x) == IF x = 0 THEN 0 ELSE x

(***************************************************************************)
(* v2.1.0: the dataset                                                     *)
(***************************************************************************)
initialDBValue(created) ==
  [instances |-> << >>,
   users |-> << >>,
   statistics |->
     [totalConnections |-> 0, currentConnections |-> 0, peakConnections |-> 0,
      disconnections |-> 0, reconnections |-> 0, totalMessages |-> 0,
      dailyActive |-> << >>, dailyDisconnections |-> << >>, userAgents |-> << >>,
      messageTypes |-> << >>, groupEvents |-> << >>, statusUpdates |-> << >>,
      messageReactions |-> << >>, errors |-> << >>, systemInfo |-> << >>,
      heartbeats |-> 0],
   settings |-> [version |-> "2.1.0", createdAt |-> created, lastMaintenance |-> << >>]]

\* new Date().toISOString().split('T')[0]: the day the clock is in
getDailyKey(t) == t \div 1440

\* `marxbot_${Date.now()}_${Math.random().toString(36).substring(2, 8)}`
MintId(t, r) == <<t, r>>

\* i.lastHeartbeat || 0: an instance object may have no lastHeartbeat property
lastHeartbeatOrZero(i) == IF Has(i, "lastHeartbeat") THEN OrZero(i.lastHeartbeat) ELSE 0

isActive(i, now) ==
  /\ i.status = "connected"
  /\ (now - i.lastActive) < TIMEOUTS_concurrent
  /\ (now - lastHeartbeatOrZero(i)) < TIMEOUTS_heartbeat

\* mutation: the complementary filter leaves the heartbeat age out
isInactive_ignoresHeartbeat(i, now) ==
  \/ i.status # "connected"
  \/ (now - i.lastActive) >= TIMEOUTS_concurrent

\* the complementary filter of GET /api/stats and /api/connection-health
isInactive(i, now) ==
  \/ i.status # "connected"
  \/ (now - i.lastActive) >= TIMEOUTS_concurrent
  \/ (now - lastHeartbeatOrZero(i)) >= TIMEOUTS_heartbeat

\* mutation: the current count is stored and the peak is left alone
updateConnectionStats_keepsPeak(db, now) ==
  LET cur == Cardinality({id \in DOMAIN db.instances : isActive(db.instances[id], now)})
  IN [db EXCEPT !.statistics.currentConnections = cur]

\* mutation: the peak follows the current count instead of ratcheting
updateConnectionStats_noRatchet(db, now) ==
  LET cur == Cardinality({id \in DOMAIN db.instances : isActive(db.instances[id], now)})
  IN [db EXCEPT !.statistics.currentConnections = cur,
                !.statistics.peakConnections = cur]

updateConnectionStats(db, now) ==
  LET cur == Cardinality({id \in DOMAIN db.instances : isActive(db.instances[id], now)})
  IN [db EXCEPT !.statistics.currentConnections = cur,
                !.statistics.peakConnections = IF cur > @ THEN cur ELSE @]

newUser(userId, instanceId, now) ==
  [id |-> userId, firstSeen |-> now, lastActive |-> now, instances |-> <<instanceId>>,
   totalMessages |-> 0, totalReactions |-> 0]

\* mutation: a new instance starts with no connection counted
newInstance_uncounted(instanceId, userId, userAgent, ip, now) ==
  [id |-> instanceId, firstSeen |-> now, lastActive |-> now, lastHeartbeat |-> now,
   status |-> "connected", userAgent |-> userAgent, ipAddress |-> ip, userId |-> userId,
   connectionCount |-> 0, lastDisconnect |-> << >>, systemInfo |-> << >>]

newInstance(instanceId, userId, userAgent, ip, now) ==
  [id |-> instanceId, firstSeen |-> now, lastActive |-> now, lastHeartbeat |-> now,
   status |-> "connected", userAgent |-> userAgent, ipAddress |-> ip, userId |-> userId,
   connectionCount |-> 1, lastDisconnect |-> << >>, systemInfo |-> << >>]

\* mutation: a Connect to an existing instance starts its connectionCount over
connectInstance_resetCount(db, instanceId, userId, userAgent, ip, now) ==
  IF ~Has(db.instances, instanceId)
  THEN [db EXCEPT
          !.instances = Put(@, instanceId, newInstance(instanceId, userId, userAgent, ip, now)),
          !.statistics.totalConnections = @ + 1]
  ELSE LET wasDisconnected == db.instances[instanceId].status = "disconnected"
       IN [db EXCEPT
             !.instances[instanceId] =
                [@ EXCEPT !.lastActive = now, !.lastHeartbeat = now,
                          !.status = "connected", !.connectionCount = 0],
             !.statistics.reconnections = IF wasDisconnected THEN @ + 1 ELSE @]

\* mutation: every Connect to an existing instance counts as a reconnection
connectInstance_alwaysReconnects(db, instanceId, userId, userAgent, ip, now) ==
  IF ~Has(db.instances, instanceId)
  THEN [db EXCEPT
          !.instances = Put(@, instanceId, newInstance(instanceId, userId, userAgent, ip, now)),
          !.statistics.totalConnections = @ + 1]
  ELSE [db EXCEPT
          !.instances[instanceId] =
             [@ EXCEPT !.lastActive = now, !.lastHeartbeat = now,
                       !.status = "connected", !.connectionCount = @ + 1],
          !.statistics.reconnections = @ + 1]

\* POST /api/connect, lines 266-293
connectInstance(db, instanceId, userId, userAgent, ip, now) ==
  IF ~Has(db.instances, instanceId)
  THEN [db EXCEPT
          !.instances = Put(@, instanceId, newInstance(instanceId, userId, userAgent, ip, now)),
          !.statistics.totalConnections = @ + 1]
  ELSE LET wasDisconnected == db.instances[instanceId].status = "disconnected"
       IN [db EXCEPT
             !.instances[instanceId] =
                [@ EXCEPT !.lastActive = now, !.lastHeartbeat = now,
                          !.status = "connected", !.connectionCount = @ + 1],
             !.statistics.reconnections = IF wasDisconnected THEN @ + 1 ELSE @]

\* POST /api/connect, lines 295-307
connectUser(db, instanceId, userId, now) ==
  IF ~Has(db.users, userId)
  THEN [db EXCEPT !.users = Put(@, userId, newUser(userId, instanceId, now))]
  ELSE IF ~Includes(db.users[userId].instances, instanceId)
       THEN [db EXCEPT !.users[userId].instances = Append(@, instanceId)]
       ELSE db

\* POST /api/connect, lines 266-313: everything between id resolution and saveDB
connectApply(db, instanceId, userId, userAgent, ip, now) ==
  LET d1 == connectInstance(db, instanceId, userId, userAgent, ip, now)
      d2 == connectUser(d1, instanceId, userId, now)
      d3 == [d2 EXCEPT !.statistics.userAgents = Inc(@, userAgent),
                       !.statistics.dailyActive = Inc(@, getDailyKey(now))]
  IN updateConnectionStats(d3, now)

\* mutation: a heartbeat also marks the instance connected
heartbeatApply_reconnects(db, instanceId, now) ==
  [db EXCEPT !.instances[instanceId] = [@ EXCEPT !.lastHeartbeat = now, !.lastActive = now,
                                                !.status = "connected"],
             !.statistics.heartbeats = OrZero(@) + 1]

\* POST /api/heartbeat, lines 336-341 (the handler saves only in this branch)
heartbeatApply(db, instanceId, now) ==
  [db EXCEPT !.instances[instanceId] = [@ EXCEPT !.lastHeartbeat = now, !.lastActive = now],
             !.statistics.heartbeats = OrZero(@) + 1]

\* mutation: the disconnection is counted before the instance is looked up
disconnectApply_countsUnknown(db, instanceId, reason, now) ==
  LET d == [db EXCEPT !.statistics.disconnections = @ + 1,
                      !.statistics.dailyDisconnections = Inc(@, getDailyKey(now))]
  IN IF Has(db.instances, instanceId)
     THEN updateConnectionStats(
            [d EXCEPT
               !.instances[instanceId] =
                  [@ EXCEPT !.status = "disconnected", !.lastActive = now,
                            !.lastDisconnect = <<[timestamp |-> now, reason |-> reason]>>]],
            now)
     ELSE d

\* POST /api/disconnect, lines 365-375
disconnectApply(db, instanceId, reason, now) ==
  IF Has(db.instances, instanceId)
  THEN updateConnectionStats(
         [db EXCEPT
            !.instances[instanceId] =
               [@ EXCEPT !.status = "disconnected", !.lastActive = now,
                         !.lastDisconnect = <<[timestamp |-> now, reason |-> reason]>>],
            !.statistics.disconnections = @ + 1,
            !.statistics.dailyDisconnections = Inc(@, getDailyKey(now))],
         now)
  ELSE db

\* mutation: a user created by Track starts without the instance it named
trackUser_forgetsInstance(db, instanceId, userId, now) ==
  IF ~Has(db.users, userId)
  THEN [db EXCEPT !.users = Put(@, userId, [newUser(userId, instanceId, now)
                                             EXCEPT !.instances = << >>])]
  ELSE [db EXCEPT !.users[userId].lastActive = now]

\* POST /api/track, lines 402-417
trackUser(db, instanceId, userId, now) ==
  IF ~Has(db.users, userId)
  THEN [db EXCEPT !.users = Put(@, userId, newUser(userId, instanceId, now))]
  ELSE [db EXCEPT !.users[userId] =
          [@ EXCEPT !.lastActive = now,
                    !.instances = IF Includes(@, instanceId) THEN @ ELSE Append(@, instanceId)]]

\* mutation: an event type the dispatch does not know is counted as a message
trackEvent_countsUnknown(db, instanceId, userId, eventType, messageType, now) ==
  [db EXCEPT !.statistics.totalMessages = @ + 1]

\* mutation: a message is counted in the statistics and not for its user
trackEvent_forgetsUser(db, instanceId, userId, eventType, messageType, now) ==
  IF eventType = <<"message">>
  THEN [db EXCEPT !.statistics.totalMessages = @ + 1]
  ELSE db

\* mutation: a reaction is counted as a message too
trackEvent_reactionIsMessage(db, instanceId, userId, eventType, messageType, now) ==
  IF eventType \in {<<"message">>, <<"message_reaction">>}
  THEN [db EXCEPT !.statistics.totalMessages = @ + 1,
                  !.users[userId].totalMessages = @ + 1,
                  !.statistics.messageTypes =
                     IF messageType # << >> THEN Inc(@, messageType[1]) ELSE @]
  ELSE db

\* POST /api/track, lines 424-452
trackEvent(db, instanceId, userId, eventType, messageType, now) ==
  IF eventType = <<"message">>
  THEN [db EXCEPT !.statistics.totalMessages = @ + 1,
                  !.users[userId].totalMessages = @ + 1,
                  !.statistics.messageTypes =
                     IF messageType # << >> THEN Inc(@, messageType[1]) ELSE @]
  ELSE IF eventType = <<"group_update">>
  THEN [db EXCEPT !.statistics.groupEvents = Inc(@, "add_g1")]
  ELSE IF eventType = <<"status_update">>
  THEN [db EXCEPT !.statistics.statusUpdates = Inc(@, "online")]
  ELSE IF eventType = <<"message_reaction">>
  THEN [db EXCEPT !.statistics.messageReactions = Inc(@, "like"),
                  !.users[userId].totalReactions = @ + 1]
  ELSE IF eventType = <<"heartbeat">> /\ Has(db.instances, instanceId)
  THEN [db EXCEPT !.instances[instanceId].lastHeartbeat = now,
                  !.statistics.heartbeats = OrZero(@) + 1]
  ELSE db

\* POST /api/track, lines 400-452
trackApply(db, instanceId, userId, eventType, messageType, now) ==
  LET d1 == trackUser(db, instanceId, userId, now)
      d2 == IF Has(d1.instances, instanceId)
            THEN [d1 EXCEPT !.instances[instanceId].lastActive = now]
            ELSE d1
  IN trackEvent(d2, instanceId, userId, eventType, messageType, now)

\* POST /api/system-info, lines 476-483
systemInfoApply(db, instanceId, systemInfo, now) ==
  IF Has(db.instances, instanceId)
  THEN [db EXCEPT
          !.instances[instanceId] = [@ EXCEPT !.systemInfo = <<systemInfo>>,
                                              !.lastHeartbeat = now],
          !.statistics.systemInfo =
             Put(@, instanceId, [info |-> systemInfo, lastUpdated |-> now])]
  ELSE db

\* cleanupInactiveInstances, lines 177-182
staleInstances(db, now) ==
  {id \in DOMAIN db.instances : (now - db.instances[id].lastActive) > TIMEOUTS_disconnected}

\* loadInstanceStorage, lines 122-133: `fs` is require('fs').promises, which has no
\* existsSync, so the call throws inside the try, the catch logs and returns {}
loadInstanceStorage(file) == << >>

\* POST /api/connect, lines 253-257: the id the request resolves to before minting
resolveInstanceId(supplied, instanceStorage, userId) ==
  IF supplied = << >> /\ Has(instanceStorage, userId)
  THEN <<instanceStorage[userId]>>
  ELSE supplied

\* POST /api/connect, line 260
needsMint(db, resolved) == resolved = << >> \/ ~Has(db.instances, resolved[1])

\* ensurePersistentData, lines 154-161: files.sort().slice(0, -30) are unlinked
retainBackups(files) ==
  [d \in {k \in DOMAIN files : Cardinality({j \in DOMAIN files : j > k}) < 30} |-> files[d]]

(***************************************************************************)
(* v1.3.0, src/unnamed/part_000: session tracking and health scores.       *)
(*                                                                         *)
(* Time: the v1.3.0 model counts the clock in seconds.                     *)
(* Numbers that the code holds as quotients (avgSessionDuration, the        *)
(* dataset scores) are kept as fractions [num, den], den > 0.               *)
(* Object identity: Connect stores one session object twice, as the last    *)
(* element of `sessions` and as `currentSession`. `alias` = k > 0 says that *)
(* currentSession is the very object sessions[k]; alias = 0 says it is an   *)
(* object of its own, which is what JSON.parse builds from the file.        *)
(***************************************************************************)
\* number of requests handled in one behaviour of the v1.3.0 server
MaxEvents_v13 == 4
\* number of times the v1.3.0 clock advances in one behaviour
MaxTicks_v13 == 1
\* number of Connect/Disconnect cycles one client of the v1.3.0 server makes
MaxCycles == 5

\* src/unnamed/part_002, TIMEOUTS.concurrent: 30 * 60 * 1000 ms
TIMEOUTS_concurrent_v13 == 1800
\* detectConnectionQuality: (now - firstSeen) < 3600000
HOUR == 3600
\* detectConnectionQuality: avgSessionDuration < 30000
SHORT_SESSION == 30
\* calculateHealthScore: avgSessionDuration < 60000
MINUTE == 60
\* new Date().toISOString().split('T')[0]
DAY == 86400

InstanceIds_v13 == {"i1", "i2"}
Ips_v13 == {"ip1", "ip2"}
Reasons_v13 == {"normal", "unknown"}

Rat(n, d) == [num |-> n, den |-> d]
Min(a, b) == IF a <= b THEN a ELSE b

RECURSIVE SumSeq(_)
SumSeq(s) == IF s = << >> THEN 0 ELSE s[1] + SumSeq(Tail(s))
RECURSIVE MinSeq(_)
MinSeq(s) == IF Len(s) = 1 THEN s[1] ELSE Min(s[1], MinSeq(Tail(s)))
RECURSIVE MaxSeq(_)
MaxSeq(s) == IF Len(s) = 1 THEN s[1] ELSE Max(s[1], MaxSeq(Tail(s)))
\* Object.values(m), in some order
RECURSIVE Values(_)
Values(m) ==
  IF DOMAIN m = {} THEN << >>
  ELSE LET k == CHOOSE x \in DOMAIN m : TRUE
       IN <<m[k]>> \o Values(Delete(m, {k}))
\* array.flatMap of arrays
RECURSIVE Flat(_)
Flat(ss) == IF ss = << >> THEN << >> ELSE ss[1] \o Flat(Tail(ss))
\* Math.round(n / d), d > 0: halves go up
Round(n, d) == (2 * n + d) \div (2 * d)

initialDBValue_v13(created) ==
  [instances |-> << >>,
   users |-> << >>,
   statistics |->
     [totalConnections |-> 0, currentConnections |-> 0, peakConnections |-> 0,
      disconnections |-> 0, reconnections |-> 0, totalMessages |-> 0,
      dailyActive |-> << >>, userAgents |-> << >>, connectionEvents |-> << >>,
      sessionMetrics |-> [avgDuration |-> Rat(0, 1), minDuration |-> 0,
                          maxDuration |-> 0, failedConnections |-> 0],
      qualityMetrics |-> [stabilityScore |-> Rat(100, 1), healthScore |-> 100,
                          connectionQuality |-> Rat(100, 1)]],
   settings |-> [version |-> "1.3.0", createdAt |-> created]]

\* JSON.stringify followed by JSON.parse: every object is written out where it
\* is referenced and read back as an object of its own.
stringify(db) ==
  [db EXCEPT !.instances = [id \in DOMAIN @ |-> [@[id] EXCEPT !.alias = 0]]]

\* s.duration as a condition: null and 0 are both falsy
hasDuration(s) == s.duration # << >> /\ s.duration[1] # 0

\* instance.sessions.filter(s => s.duration).map(s => s.duration)
sessionDurations(sessions) ==
  LET kept == SelectSeq(sessions, hasDuration)
  IN [n \in 1..Len(kept) |-> kept[n].duration[1]]

isFailure(e) == e.type = "disconnection" /\ e.reason # "normal"

\* mutation: the fifth connection already counts as frequent
detectConnectionQuality_atFive(instance, now) ==
  LET issues ==
        (IF instance.connectionCount >= 5 /\ (now - instance.firstSeen) < HOUR
         THEN <<"frequent_reconnections">> ELSE << >>)
        \o (IF instance.avgSessionDuration.num < SHORT_SESSION * instance.avgSessionDuration.den
            THEN <<"short_sessions">> ELSE << >>)
        \o (IF Len(instance.ipHistory) > 1 THEN <<"ip_instability">> ELSE << >>)
  IN IF Len(issues) > 0 THEN issues ELSE <<"stable">>

detectConnectionQuality(instance, now) ==
  LET issues ==
        (IF instance.connectionCount > 5 /\ (now - instance.firstSeen) < HOUR
         THEN <<"frequent_reconnections">> ELSE << >>)
        \o (IF instance.avgSessionDuration.num < SHORT_SESSION * instance.avgSessionDuration.den
            THEN <<"short_sessions">> ELSE << >>)
        \o (IF Len(instance.ipHistory) > 1 THEN <<"ip_instability">> ELSE << >>)
  IN IF Len(issues) > 0 THEN issues ELSE <<"stable">>

\* score as a fraction over 4 * den, so that the duration penalty
\* (1 - avg / 60000) * 15 is exact
calculateHealthScore(instance) ==
  LET avg == instance.avgSessionDuration
      flat == 100
              - (IF Includes(instance.qualityIssues, "frequent_reconnections") THEN 30 ELSE 0)
              - (IF Includes(instance.qualityIssues, "short_sessions") THEN 20 ELSE 0)
              - (IF Includes(instance.qualityIssues, "ip_instability") THEN 15 ELSE 0)
              - (IF 10 * instance.disconnectionCount > 3 * instance.connectionCount
                 THEN 20 ELSE 0)
      score == IF avg.num < MINUTE * avg.den
               THEN Rat(flat * 4 * avg.den - (MINUTE * avg.den - avg.num), 4 * avg.den)
               ELSE Rat(flat, 1)
  IN Max(0, Round(score.num, score.den))

calculateConnectionQuality(db) ==
  LET totalSessions ==
        Len(SelectSeq(db.statistics.connectionEvents, LAMBDA e : e.type = "connection"))
      failedSessions == Len(SelectSeq(db.statistics.connectionEvents, isFailure))
  IN IF totalSessions > 0
     THEN Rat(Max(0, 100 * totalSessions - 100 * failedSessions), totalSessions)
     ELSE Rat(100, 1)

\* mutation: the score is not clamped at 0
calculateStabilityScore_unclamped(db) ==
  LET totalConnections == db.statistics.totalConnections
      failedConnections == Len(SelectSeq(db.statistics.connectionEvents, isFailure))
  IN IF totalConnections > 0
     THEN Rat(100 * totalConnections - 100 * failedConnections, totalConnections)
     ELSE Rat(100, 1)

calculateStabilityScore(db) ==
  LET totalConnections == db.statistics.totalConnections
      failedConnections == Len(SelectSeq(db.statistics.connectionEvents, isFailure))
  IN IF totalConnections > 0
     THEN Rat(Max(0, 100 * totalConnections - 100 * failedConnections), totalConnections)
     ELSE Rat(100, 1)

updateQualityMetrics(db) ==
  LET instances == Values(db.instances)
      durations == Flat([n \in 1..Len(instances) |-> sessionDurations(instances[n].sessions)])
      sessionMetrics ==
        IF Len(durations) > 0
        THEN [avgDuration |-> Rat(SumSeq(durations), Len(durations)),
              minDuration |-> MinSeq(durations),
              maxDuration |-> MaxSeq(durations),
              failedConnections |-> Len(SelectSeq(db.statistics.connectionEvents, isFailure))]
        ELSE db.statistics.sessionMetrics
      healthScores == [n \in 1..Len(instances) |-> instances[n].healthScore]
      avgHealthScore == IF Len(healthScores) > 0
                        THEN Rat(SumSeq(healthScores), Len(healthScores))
                        ELSE Rat(100, 1)
  IN [db EXCEPT !.statistics.sessionMetrics = sessionMetrics,
                !.statistics.qualityMetrics =
                    [stabilityScore |-> calculateStabilityScore(db),
                     healthScore |-> Round(avgHealthScore.num, avgHealthScore.den),
                     connectionQuality |-> calculateConnectionQuality(db)]]

isActive_v13(i, now) ==
  i.status = "connected" /\ (now - i.lastActive) < TIMEOUTS_concurrent_v13

updateConnectionStats_v13(db, now) ==
  LET current == Cardinality({id \in DOMAIN db.instances : isActive_v13(db.instances[id], now)})
  IN [db EXCEPT !.statistics.currentConnections = current,
                !.statistics.peakConnections = IF current > @ THEN current ELSE @]

newSession(now, ip, userAgent) ==
  [start |-> now, end |-> << >>, duration |-> << >>, ip |-> ip, userAgent |-> userAgent,
   disconnectReason |-> << >>]

\* instance.currentSession.end = now, .duration = now - start (and
\* .disconnectReason = reason in Disconnect), then avgSessionDuration from the
\* durations found in instance.sessions. The element of `sessions` is modified
\* only if it is the same object as currentSession.
closeCurrentSession(instance, now, reason) ==
  LET closed == [instance.currentSession EXCEPT
                   !.end = <<now>>, !.duration = <<now - instance.currentSession.start>>,
                   !.disconnectReason = IF reason = << >> THEN @ ELSE reason]
      sessions == IF instance.alias > 0
                  THEN [instance.sessions EXCEPT ![instance.alias] = closed]
                  ELSE instance.sessions
      durations == sessionDurations(sessions)
  IN [instance EXCEPT
        !.currentSession = closed,
        !.sessions = sessions,
        !.avgSessionDuration = IF Len(durations) > 0
                               THEN Rat(SumSeq(durations), Len(durations)) ELSE @]

newInstance_v13(userId, userAgent, ip, currentSession, now) ==
  [firstSeen |-> now, lastActive |-> now, lastReconnect |-> now, status |-> "connected",
   userAgent |-> userAgent, ipAddress |-> ip, ipHistory |-> <<ip>>, userId |-> userId,
   connectionCount |-> 1, disconnectionCount |-> 0,
   sessions |-> <<currentSession>>, currentSession |-> currentSession, alias |-> 1,
   qualityIssues |-> << >>, avgSessionDuration |-> Rat(0, 1), healthScore |-> 100]

\* POST /api/connect, lines 219-223 and 255-285, for an instance the dataset has
reconnectInstance(instance, ip, currentSession, now) ==
  LET listed == [instance EXCEPT !.ipHistory = IF Includes(@, ip) THEN @ ELSE Append(@, ip)]
      closed == IF listed.status = "disconnected"
                THEN closeCurrentSession(listed, now, << >>)
                ELSE listed
      opened == [closed EXCEPT !.lastActive = now, !.lastReconnect = now,
                               !.status = "connected", !.connectionCount = @ + 1,
                               !.currentSession = currentSession,
                               !.sessions = Append(@, currentSession),
                               !.alias = Len(closed.sessions) + 1]
      tagged == [opened EXCEPT !.qualityIssues = detectConnectionQuality(opened, now)]
  IN [tagged EXCEPT !.healthScore = calculateHealthScore(tagged)]

newUser_v13(instanceId, now) ==
  [firstSeen |-> now, lastActive |-> now, instances |-> <<instanceId>>]

\* POST /api/connect, lines 215-308: the dataset as it is handed to saveDB
connect_v13(db, instanceId, userId, userAgent, ip, now) ==
  LET isReconnection == Has(db.instances, instanceId)
      currentSession == newSession(now, ip, userAgent)
      wasDisconnected == isReconnection /\ db.instances[instanceId].status = "disconnected"
      instances == IF ~isReconnection
                   THEN Put(db.instances, instanceId,
                            newInstance_v13(userId, userAgent, ip, currentSession, now))
                   ELSE [db.instances EXCEPT
                           ![instanceId] = reconnectInstance(@, ip, currentSession, now)]
      users == IF userId # << >> /\ ~Has(db.users, userId[1])
               THEN Put(db.users, userId[1], newUser_v13(instanceId, now))
               ELSE db.users
      statistics ==
        [db.statistics EXCEPT
           !.totalConnections = IF ~isReconnection THEN @ + 1 ELSE @,
           !.reconnections = IF wasDisconnected THEN @ + 1 ELSE @,
           !.userAgents = Inc(@, userAgent),
           !.dailyActive = Inc(@, now \div DAY),
           !.connectionEvents = Append(@, [type |-> "connection", instanceId |-> instanceId,
                                           timestamp |-> now,
                                           isReconnection |-> isReconnection])]
  IN updateQualityMetrics(updateConnectionStats_v13(
       [db EXCEPT !.instances = instances, !.users = users, !.statistics = statistics],
       now))

\* mutation: a Disconnect of an instance that is already disconnected is
\* recorded as an event and not counted for the instance
disconnect_v13_countsOncePerSession(db, instanceId, reason, now) ==
  IF ~Has(db.instances, instanceId) THEN db
  ELSE LET closed == closeCurrentSession(db.instances[instanceId], now, <<reason>>)
           left == [closed EXCEPT !.status = "disconnected", !.lastActive = now,
                                  !.disconnectionCount =
                                     IF db.instances[instanceId].status = "disconnected"
                                     THEN @ ELSE @ + 1]
           scored == [left EXCEPT !.healthScore = calculateHealthScore(left)]
           statistics ==
             [db.statistics EXCEPT
                !.disconnections = @ + 1,
                !.connectionEvents =
                    Append(@, [type |-> "disconnection", instanceId |-> instanceId,
                               timestamp |-> now, reason |-> reason,
                               duration |-> scored.currentSession.duration])]
       IN updateQualityMetrics(updateConnectionStats_v13(
            [db EXCEPT !.instances[instanceId] = scored, !.statistics = statistics], now))

\* POST /api/disconnect, lines 329-368
disconnect_v13(db, instanceId, reason, now) ==
  IF ~Has(db.instances, instanceId) THEN db
  ELSE LET closed == closeCurrentSession(db.instances[instanceId], now, <<reason>>)
           left == [closed EXCEPT !.status = "disconnected", !.lastActive = now,
                                  !.disconnectionCount = @ + 1]
           scored == [left EXCEPT !.healthScore = calculateHealthScore(left)]
           statistics ==
             [db.statistics EXCEPT
                !.disconnections = @ + 1,
                !.connectionEvents =
                    Append(@, [type |-> "disconnection", instanceId |-> instanceId,
                               timestamp |-> now, reason |-> reason,
                               duration |-> scored.currentSession.duration])]
       IN updateQualityMetrics(updateConnectionStats_v13(
            [db EXCEPT !.instances[instanceId] = scored, !.statistics = statistics], now))

\* POST /api/track, lines 383-405
track_v13(db, instanceId, userId, now) ==
  LET users == IF ~Has(db.users, userId)
               THEN Put(db.users, userId, newUser_v13(instanceId, now))
               ELSE [db.users EXCEPT
                       ![userId].lastActive = now,
                       ![userId].instances = IF Includes(@, instanceId) THEN @
                                             ELSE Append(@, instanceId)]
      instances == IF Has(db.instances, instanceId)
                   THEN [db.instances EXCEPT ![instanceId].lastActive = now]
                   ELSE db.instances
  IN [db EXCEPT !.users = users, !.instances = instances,
                !.statistics.totalMessages = @ + 1]

(***************************************************************************)
(* v1.3.0: state                                                           *)
(***************************************************************************)
VARIABLES
  now_v13,        \* Date.now(), in seconds
  ticks_v13,      \* number of clock advances so far
  dbFile_v13,     \* db/db.json: << >> while it does not exist, else <<dataset>>
  initialDB_v13,  \* the module-level object initialDB (mutable)
  handled_v13     \* history: the requests handled so far

vars_v13 == <<now_v13, ticks_v13, dbFile_v13, initialDB_v13, handled_v13>>

Init_v13 ==
  /\ now_v13 = 1
  /\ ticks_v13 = 0
  /\ dbFile_v13 = << >>
  /\ initialDB_v13 = initialDBValue_v13(1)
  /\ handled_v13 = << >>

(***************************************************************************)
(* v2.0.0, src/api/server.js lines 1-561: marxbot_<n> ids.                 *)
(*                                                                         *)
(* Time: the v2.0.0 model counts the clock in minutes.                     *)
(* An instance id is a pair: <<"marxbot", n>> for `marxbot_${n}`, and       *)
(* <<"x", 0>> for a string of another form.                                 *)
(***************************************************************************)
\* number of requests handled in one behaviour of the v2.0.0 server
MaxEvents_v20 == 3
\* number of times the v2.0.0 clock advances in one behaviour
MaxTicks_v20 == 2

\* src/unnamed/part_002, TIMEOUTS.concurrent: 30 minutes
TIMEOUTS_concurrent_v20 == 30
\* src/unnamed/part_002, TIMEOUTS.disconnected: 12 hours
TIMEOUTS_disconnected_v20 == 720

\* ids of the caller's own making: one of no particular form, and one of the
\* form the server mints
ForeignIds_v20 == {<<"x", 0>>, <<"marxbot", 2>>}
TrackEvents_v20 ==
  {<<<<"message">>, <<"text">>>>, <<<<"message">>, << >>>>, <<<<"group_update">>, << >>>>,
   <<<<"status_update">>, << >>>>, <<<<"message_reaction">>, << >>>>, <<<< >>, << >>>>}

initialDBValue_v20(created) ==
  [instances |-> << >>,
   users |-> << >>,
   statistics |->
     [totalConnections |-> 0, currentConnections |-> 0, peakConnections |-> 0,
      disconnections |-> 0, totalMessages |-> 0,
      dailyActive |-> << >>, dailyDisconnections |-> << >>, userAgents |-> << >>,
      messageTypes |-> << >>, groupEvents |-> << >>, statusUpdates |-> << >>,
      messageReactions |-> << >>, errors |-> << >>, systemInfo |-> << >>],
   settings |-> [version |-> "2.0.0", createdAt |-> created, lastMaintenance |-> << >>]]

\* `marxbot_${Object.keys(db.instances).length + 1}`
MintId_v20(db) == <<"marxbot", Cardinality(DOMAIN db.instances) + 1>>

\* POST /api/connect, lines 160-163: the id the handler goes on with
resolveInstanceId_v20(db, supplied) ==
  IF supplied = << >> \/ Has(db.instances, supplied[1]) THEN MintId_v20(db) ELSE supplied[1]

\* mutation: a filter that looks at the stored status only
isActive_v20_statusOnly(i, now) == i.status = "connected"

\* the filter of updateConnectionStats, GET /api/stats, /api/instances and
\* /api/connection-health
isActive_v20(i, now) ==
  i.status = "connected" /\ (now - i.lastActive) < TIMEOUTS_concurrent_v20

\* the complementary filter of GET /api/stats and /api/connection-health
isInactive_v20(i, now) ==
  i.status # "connected" \/ (now - i.lastActive) >= TIMEOUTS_concurrent_v20

updateConnectionStats_v20(db, now) ==
  LET current == Cardinality({id \in DOMAIN db.instances : isActive_v20(db.instances[id], now)})
  IN [db EXCEPT !.statistics.currentConnections = current,
                !.statistics.peakConnections = IF current > @ THEN current ELSE @]

newInstance_v20(instanceId, userId, userAgent, ip, now) ==
  [id |-> instanceId, firstSeen |-> now, lastActive |-> now, status |-> "connected",
   userAgent |-> userAgent, ipAddress |-> ip, userId |-> userId, connectionCount |-> 1,
   lastDisconnect |-> << >>, systemInfo |-> << >>]

newUser_v20(userId, instanceId, now) ==
  [id |-> userId, firstSeen |-> now, lastActive |-> now, instances |-> <<instanceId>>,
   totalMessages |-> 0, totalReactions |-> 0]

\* mutation: every Connect is counted, not only one that creates an instance
connectInstance_v20_countsEvents(db, instanceId, userId, userAgent, ip, now) ==
  IF ~Has(db.instances, instanceId)
  THEN [db EXCEPT
          !.instances = Put(@, instanceId,
                            newInstance_v20(instanceId, userId, userAgent, ip, now)),
          !.statistics.totalConnections = @ + 1]
  ELSE [db EXCEPT
          !.instances[instanceId] =
             [@ EXCEPT !.lastActive = now, !.status = "connected",
                       !.connectionCount = @ + 1],
          !.statistics.totalConnections = @ + 1]

\* POST /api/connect, lines 165-183
connectInstance_v20(db, instanceId, userId, userAgent, ip, now) ==
  IF ~Has(db.instances, instanceId)
  THEN [db EXCEPT
          !.instances = Put(@, instanceId,
                            newInstance_v20(instanceId, userId, userAgent, ip, now)),
          !.statistics.totalConnections = @ + 1]
  ELSE [db EXCEPT
          !.instances[instanceId] =
             [@ EXCEPT !.lastActive = now, !.status = "connected",
                       !.connectionCount = @ + 1]]

\* POST /api/connect, lines 185-197
connectUser_v20(db, instanceId, userId, now) ==
  IF ~Has(db.users, userId)
  THEN [db EXCEPT !.users = Put(@, userId, newUser_v20(userId, instanceId, now))]
  ELSE IF ~Includes(db.users[userId].instances, instanceId)
  THEN [db EXCEPT !.users[userId].instances = Append(@, instanceId)]
  ELSE db

\* POST /api/connect, lines 165-203, for the resolved instanceId
connect_v20(db, instanceId, userId, userAgent, ip, now) ==
  LET d1 == connectInstance_v20(db, instanceId, userId, userAgent, ip, now)
      d2 == connectUser_v20(d1, instanceId, userId, now)
      d3 == [d2 EXCEPT !.statistics.userAgents = Inc(@, userAgent),
                       !.statistics.dailyActive = Inc(@, getDailyKey(now))]
  IN updateConnectionStats_v20(d3, now)

\* POST /api/disconnect-instances, lines 228-238
disconnect_v20(db, instanceId, reason, now) ==
  IF Has(db.instances, instanceId)
  THEN updateConnectionStats_v20(
         [db EXCEPT
            !.instances[instanceId] =
               [@ EXCEPT !.status = "disconnected", !.lastActive = now,
                         !.lastDisconnect = <<[timestamp |-> now, reason |-> reason]>>],
            !.statistics.disconnections = @ + 1,
            !.statistics.dailyDisconnections = Inc(@, getDailyKey(now))],
         now)
  ELSE db

\* POST /api/track, lines 265-312
track_v20(db, instanceId, userId, eventType, messageType, now) ==
  LET d1 == IF ~Has(db.users, userId)
            THEN [db EXCEPT !.users = Put(@, userId, newUser_v20(userId, instanceId, now))]
            ELSE [db EXCEPT
                    !.users[userId].lastActive = now,
                    !.users[userId].instances = IF Includes(@, instanceId) THEN @
                                                ELSE Append(@, instanceId)]
      d2 == IF Has(d1.instances, instanceId)
            THEN [d1 EXCEPT !.instances[instanceId].lastActive = now]
            ELSE d1
  IN IF eventType = <<"message">>
     THEN [d2 EXCEPT !.statistics.totalMessages = @ + 1,
                     !.users[userId].totalMessages = @ + 1,
                     !.statistics.messageTypes =
                        IF messageType # << >> THEN Inc(@, messageType[1]) ELSE @]
     ELSE IF eventType = <<"group_update">>
     THEN [d2 EXCEPT !.statistics.groupEvents = Inc(@, "add_g1")]
     ELSE IF eventType = <<"status_update">>
     THEN [d2 EXCEPT !.statistics.statusUpdates = Inc(@, "online")]
     ELSE IF eventType = <<"message_reaction">>
     THEN [d2 EXCEPT !.statistics.messageReactions = Inc(@, "like"),
                     !.users[userId].totalReactions = @ + 1]
     ELSE d2

\* POST /api/system-info, lines 336-342
systemInfo_v20(db, instanceId, systemInfo, now) ==
  IF Has(db.instances, instanceId)
  THEN [db EXCEPT
          !.instances[instanceId].systemInfo = <<systemInfo>>,
          !.statistics.systemInfo = Put(@, instanceId,
                                        [info |-> systemInfo, lastUpdated |-> now])]
  ELSE db

\* GET /api/stats, lines 389-404: the sets behind activeInstances,
\* inactiveInstances and activeUsers
stats_v20(db, now) ==
  [totalInstances |-> Cardinality(DOMAIN db.instances),
   activeInstances |-> {id \in DOMAIN db.instances : isActive_v20(db.instances[id], now)},
   inactiveInstances |-> {id \in DOMAIN db.instances : isInactive_v20(db.instances[id], now)},
   totalUsers |-> Cardinality(DOMAIN db.users),
   activeUsers |-> {u \in DOMAIN db.users :
                      (now - db.users[u].lastActive) < TIMEOUTS_concurrent_v20},
   statistics |-> db.statistics]

(***************************************************************************)
(* v2.0.0: state                                                           *)
(***************************************************************************)
VARIABLES
  now_v20,        \* Date.now(), in minutes
  ticks_v20,      \* number of clock advances so far
  dbFile_v20,     \* db/db.json: << >> while it does not exist, else <<dataset>>
  initialDB_v20,  \* the module-level object initialDB (mutable)
  backups_v20,    \* db/backups: day |-> dataset
  response_v20,   \* the last request handled and what res.json carried
  issued_v20,     \* instance ids that Connect responses have carried to callers
  touched_v20,    \* history: instance id |-> the last event sent for it, and when
  nreq_v20        \* requests handled so far

vars_v20 == <<now_v20, ticks_v20, dbFile_v20, initialDB_v20, backups_v20, response_v20,
              issued_v20, touched_v20, nreq_v20>>

NoResponse_v20 == [kind |-> "none"]

Init_v20 ==
  /\ now_v20 = 1
  /\ ticks_v20 = 0
  /\ dbFile_v20 = << >>
  /\ initialDB_v20 = initialDBValue_v20(1)
  /\ backups_v20 = << >>
  /\ response_v20 = NoResponse_v20
  /\ issued_v20 = {}
  /\ touched_v20 = << >>
  /\ nreq_v20 = 0

(***************************************************************************)
(* v2.1.0: state                                                           *)
(***************************************************************************)
VARIABLES
  clock,                \* Date.now(), in minutes
  ticks,                \* number of clock advances so far
  dbFile,               \* db/db.json: << >> while it does not exist, else <<dataset>>
  initialDB,            \* the module-level object initialDB (mutable, shared)
  instanceStorageFile,  \* data/instance_storage.json: << >> or <<map>>
  backups,              \* db/backups: day |-> dataset
  h,                    \* the handlers in flight
  issued,               \* instance ids that responses have carried to callers
  nreq,                 \* requests and sweeps started so far
  named,                \* user ids and random suffixes that have occurred so far
  peakSeen,             \* history: the largest currentConnections db.json has held
  mintedFor,            \* history: <<userId, id>> of every id minted for a Connect
                        \* that named no instanceId, once it has been answered
  faults,               \* store failures so far: db.json lost, or a writeFile rejected
  answered              \* responses sent so far (res.json calls)

vars_v21 == <<clock, ticks, dbFile, initialDB, instanceStorageFile, backups, h, issued,
              nreq, named, peakSeen, mintedFor, faults, answered>>

(***************************************************************************)
(* The instance counts of the query endpoints, as functions of the dataset  *)
(* loaded and of Date.now()                                                *)
(***************************************************************************)
MaxViewInstances == 2
\* query times on both sides of the two thresholds, for the stored times below
ViewClocks == {6, 7}
\* instance objects, with a lastHeartbeat (v2.1.0) and without one (as v2.0.0
\* stores them)
ViewInstances ==
  [status : {"connected", "disconnected"}, lastActive : {1, 2, 6}]
    \cup [status : {"connected", "disconnected"}, lastActive : {1, 2, 6},
          lastHeartbeat : {4, 5, 6}]
\* db.instances of the dataset loaded
ViewDatasets == UNION {[S -> ViewInstances] : S \in SUBSET (1..MaxViewInstances)}

VARIABLES
  view            \* the query answered, the instances it loaded, and its counts

NoView == [endpoint |-> "none"]

vars == <<vars_v21, vars_v13, vars_v20, view>>

NoRequest ==
  [kind |-> "none", instanceId |-> << >>, userId |-> "", userAgent |-> "", ip |-> "",
   reason |-> "", eventType |-> << >>, messageType |-> << >>, systemInfo |-> ""]

IdleHandler ==
  [pc |-> "idle", req |-> NoRequest, now |-> 0, today |-> 0, shared |-> FALSE,
   db |-> << >>, pending |-> << >>, instanceId |-> << >>, before |-> << >>,
   created |-> FALSE, missed |-> {}]

\* ids a caller can put in a request: one it was given, or one of its own making
KnownIds == issued \cup {ForeignId}

ConnectRequests ==
  {[NoRequest EXCEPT !.kind = "connect", !.instanceId = i, !.userId = u,
                     !.userAgent = a, !.ip = ip] :
     i \in {<< >>} \cup {<<x>> : x \in KnownIds}, u \in Users, a \in UserAgents, ip \in Ips}
HeartbeatRequests ==
  {[NoRequest EXCEPT !.kind = "heartbeat", !.instanceId = <<x>>] : x \in KnownIds}
DisconnectRequests ==
  {[NoRequest EXCEPT !.kind = "disconnect", !.instanceId = <<x>>, !.reason = r] :
     x \in KnownIds, r \in Reasons}
\* messageType is read for eventType 'message' only
TrackEvents == {em \in EventTypes \X MessageTypes : em[1] = <<"message">> \/ em[2] = << >>}
TrackRequests ==
  {[NoRequest EXCEPT !.kind = "track", !.instanceId = <<x>>, !.userId = u,
                     !.eventType = em[1], !.messageType = em[2]] :
     x \in KnownIds, u \in Users, em \in TrackEvents}
SystemInfoRequests ==
  {[NoRequest EXCEPT !.kind = "systemInfo", !.instanceId = <<x>>, !.systemInfo = s] :
     x \in KnownIds, s \in SystemInfos}
\* GET /api/errors, /api/stats, /api/instances, /api/users and
\* /api/connection-health (lines 491-647): each awaits loadDB and answers from
\* what it returned
QueryRequests == {[NoRequest EXCEPT !.kind = "query"]}
\* the two setInterval jobs, also run once from app.listen's callback
SweepRequests ==
  {[NoRequest EXCEPT !.kind = k] : k \in {"cleanup", "maintenance"}}

Init ==
  /\ clock = 1
  /\ ticks = 0
  /\ dbFile = << >>
  /\ initialDB = initialDBValue(1)
  /\ instanceStorageFile = << >>
  /\ backups = << >>
  /\ h = [p \in Handlers |-> IdleHandler]
  /\ issued = {}
  /\ nreq = 0
  /\ named = [users |-> {}, suffixes |-> {}]
  /\ peakSeen = 0
  /\ mintedFor = {}
  /\ faults = 0
  /\ answered = 0
  /\ Init_v13
  /\ Init_v20
  /\ view = NoView

\* User ids are interchangeable, and so are the random suffixes: "u2" is named only
\* after "u1" has been, "b" is drawn only after "a" has been.
FirstUse(x, first, used) == x = first \/ first \in used

\* handler slots are interchangeable: a request takes the first free one
FreeSlot(p) == p = "h1" \/ h["h1"].pc # "idle"

AllIdle == \A p \in Handlers : h[p].pc = "idle"

\* loadDB has returned to handler p, whose saveDB has not yet written
Loaded(p) == h[p].pc \in {"loadInstanceStorage", "saveInstanceStorage", "backup", "saveDB"}

\* the dataset handler p works on: its own parsed copy, or the shared initialDB
DbOf(p) == IF h[p].shared THEN initialDB ELSE h[p].db

(***************************************************************************)
(* v2.1.0: the handlers, one step per stretch of code between two awaits    *)
(***************************************************************************)

\* The clock advances; the steps are the ones that cross a TIMEOUTS threshold.
Tick ==
  /\ ticks < MaxTicks
  /\ \E d \in {1, TIMEOUTS_heartbeat, TIMEOUTS_concurrent, TIMEOUTS_disconnected + 1} :
       clock' = clock + d
  /\ ticks' = ticks + 1
  /\ UNCHANGED answered
  /\ UNCHANGED <<dbFile, initialDB, instanceStorageFile, backups, h, issued, mintedFor, faults, nreq, named, peakSeen>>
  /\ UNCHANGED <<vars_v13, vars_v20, view>>

\* A request reaches its handler, which reads the clock (lines 245-248, 331-332,
\* 359-361, 397-398, 471-472; line 147 for ensurePersistentData) and calls loadDB.
\* serial: the handler starts only when no other is in flight.
Receive(p, req, serial) ==
  /\ h[p].pc = "idle"
  /\ serial => AllIdle
  /\ FreeSlot(p)
  /\ nreq < (IF serial THEN MaxRequests ELSE MaxInterleaved)
  /\ h' = [h EXCEPT ![p] = [IdleHandler EXCEPT !.pc = "loadDB", !.req = req,
                                              !.now = clock,
                                              !.today = getDailyKey(clock),
                                              !.before = IF serial THEN <<dbFile>> ELSE << >>]]
  /\ nreq' = nreq + 1
  /\ req.userId # "" => FirstUse(req.userId, "u1", named.users)
  /\ named' = IF req.userId # "" THEN [named EXCEPT !.users = @ \cup {req.userId}] ELSE named
  /\ UNCHANGED answered
  /\ UNCHANGED <<clock, ticks, dbFile, initialDB, instanceStorageFile, backups, issued, mintedFor, faults,
                 peakSeen>>
  /\ UNCHANGED <<vars_v13, vars_v20, view>>

\* saveDB(data), line 115: JSON.stringify(data) is taken when saveDB is called, the
\* write lands later. If the handler's dataset is the shared initialDB, the
\* modification is made to that object.
CallSave(p, db, sh, instanceId, created) ==
  /\ h' = [h EXCEPT ![p].pc = "saveDB", ![p].pending = <<db>>, ![p].shared = sh,
                    ![p].db = << >>, ![p].instanceId = instanceId,
                    ![p].created = created]
  /\ initialDB' = IF sh THEN db ELSE initialDB
  /\ UNCHANGED answered

CallSaveDB(p, db, sh) == CallSave(p, db, sh, h[p].instanceId, FALSE)

\* a request is answered once; the setInterval jobs answer nobody
Answers(p) == IF h[p].req.kind \in {"cleanup", "maintenance"} THEN 0 ELSE 1

\* res.json(...) without a save
Respond(p) ==
  /\ h' = [h EXCEPT ![p] = IdleHandler]
  /\ answered' = answered + Answers(p)
  /\ UNCHANGED initialDB

\* The code that runs when `await loadDB()` returns db, up to the next await.
\* sh: db is the shared initialDB object, not a parsed copy.
AfterLoad(p, db, sh) ==
  LET r == h[p].req
      id == IF r.instanceId = << >> THEN ForeignId ELSE r.instanceId[1]
  IN CASE r.kind = "connect" ->
            \* line 251: await loadInstanceStorage()
            /\ h' = [h EXCEPT ![p].pc = "loadInstanceStorage", ![p].shared = sh,
                              ![p].db = IF sh THEN << >> ELSE db]
            /\ UNCHANGED <<initialDB, answered>>
       [] r.kind = "heartbeat" ->
            IF Has(db.instances, id)
            THEN CallSaveDB(p, heartbeatApply(db, id, h[p].now), sh)
            ELSE Respond(p)
       [] r.kind = "disconnect" ->
            CallSaveDB(p, disconnectApply(db, id, r.reason, h[p].now), sh)
       [] r.kind = "track" ->
            CallSaveDB(p, trackApply(db, id, r.userId, r.eventType, r.messageType,
                                     h[p].now), sh)
       [] r.kind = "systemInfo" ->
            CallSaveDB(p, systemInfoApply(db, id, r.systemInfo, h[p].now), sh)
       [] r.kind = "query" ->
            \* lines 493-522, 526-560, 565-581, 586-599, 604-646: the views are built
            \* from filtered and mapped copies and sent
            Respond(p)
       [] r.kind = "cleanup" ->
            \* lines 174-187: now is read after the load
            LET stale == staleInstances(db, clock)
            IN IF stale # {}
               THEN CallSaveDB(p, [db EXCEPT !.instances = Delete(@, stale)], sh)
               ELSE Respond(p)
       [] r.kind = "maintenance" ->
            \* line 151: await fs.writeFile(backupFile, JSON.stringify(db))
            /\ h' = [h EXCEPT ![p].pc = "backup", ![p].shared = sh, ![p].pending = <<db>>,
                              ![p].db = IF sh THEN << >> ELSE db]
            /\ UNCHANGED <<initialDB, answered>>

\* loadDB, lines 103-110: readFile. With the file there, the handler gets a parsed
\* copy; without it the catch block calls saveDB(initialDB).
loadDB(p) ==
  /\ h[p].pc = "loadDB"
  /\ IF dbFile # << >>
     THEN AfterLoad(p, dbFile[1], FALSE)
     ELSE /\ h' = [h EXCEPT ![p].pc = "loadDB_catch", ![p].pending = <<initialDB>>]
          /\ UNCHANGED <<initialDB, answered>>
  /\ UNCHANGED <<clock, ticks, dbFile, instanceStorageFile, backups, issued, mintedFor, faults, nreq, named, peakSeen>>
  /\ UNCHANGED <<vars_v13, vars_v20, view>>

\* loadDB, lines 108-109: the write of initialDB lands and loadDB returns the
\* object initialDB itself.
loadDB_catch(p) ==
  /\ h[p].pc = "loadDB_catch"
  /\ dbFile' = h[p].pending
  /\ peakSeen' = Max(peakSeen, h[p].pending[1].statistics.currentConnections)
  /\ AfterLoad(p, initialDB, TRUE)
  /\ UNCHANGED <<clock, ticks, instanceStorageFile, backups, issued, mintedFor, faults, nreq, named>>
  /\ UNCHANGED <<vars_v13, vars_v20, view>>

\* POST /api/connect, lines 251-264: loadInstanceStorage has returned; the id is
\* resolved and, when none is usable, minted and stored.
connect_resolve(p) ==
  /\ h[p].pc = "loadInstanceStorage"
  /\ LET r == h[p].req
         db == DbOf(p)
         instanceStorage == loadInstanceStorage(instanceStorageFile)
         resolved == resolveInstanceId(r.instanceId, instanceStorage, r.userId)
     IN IF needsMint(db, resolved)
        THEN /\ \E rnd \in RandomSuffixes :
                  /\ FirstUse(rnd, "a", named.suffixes)
                  /\ h' = [h EXCEPT ![p].pc = "saveInstanceStorage",
                                    ![p].instanceId = <<MintId(clock, rnd)>>]
                  /\ named' = [named EXCEPT !.suffixes = @ \cup {rnd}]
             /\ UNCHANGED <<initialDB, answered>>
        ELSE /\ CallSave(p, connectApply(db, resolved[1], r.userId, r.userAgent, r.ip,
                                         h[p].now), h[p].shared, resolved, FALSE)
             /\ UNCHANGED named
  /\ UNCHANGED <<clock, ticks, dbFile, instanceStorageFile, backups, issued, mintedFor, faults, nreq,
                 peakSeen>>
  /\ UNCHANGED <<vars_v13, vars_v20, view>>

\* POST /api/connect, lines 262-313: saveInstanceStorage has written
\* {[userId]: instanceId}; the handler modifies the dataset and calls saveDB.
connect_save(p) ==
  /\ h[p].pc = "saveInstanceStorage"
  /\ LET r == h[p].req
     IN /\ instanceStorageFile' = <<Put(<< >>, r.userId, h[p].instanceId[1])>>
        /\ CallSave(p, connectApply(DbOf(p), h[p].instanceId[1], r.userId, r.userAgent,
                                    r.ip, h[p].now), h[p].shared, h[p].instanceId,
                    ~Has(DbOf(p).instances, h[p].instanceId[1]))
  /\ UNCHANGED <<clock, ticks, dbFile, backups, issued, mintedFor, faults, nreq, named, peakSeen>>
  /\ UNCHANGED <<vars_v13, vars_v20, view>>

\* ensurePersistentData, lines 151-164: the backup file is written, old backups
\* are unlinked, lastMaintenance is set and saveDB is called.
maintenance_backup(p) ==
  /\ h[p].pc = "backup"
  /\ backups' = retainBackups(Put(backups, h[p].today, h[p].pending[1]))
  /\ CallSaveDB(p, [DbOf(p) EXCEPT !.settings.lastMaintenance = <<clock>>], h[p].shared)
  /\ UNCHANGED <<clock, ticks, dbFile, instanceStorageFile, issued, mintedFor, faults, nreq, named, peakSeen>>
  /\ UNCHANGED <<vars_v13, vars_v20, view>>

\* saveDB, line 115: the write lands, replacing the whole file; then the handler
\* answers (res.json({success: true, ...})).
saveDB(p) ==
  /\ h[p].pc = "saveDB"
  /\ dbFile' = h[p].pending
  /\ peakSeen' = Max(peakSeen, h[p].pending[1].statistics.currentConnections)
  /\ issued' = IF h[p].req.kind = "connect" THEN issued \cup {h[p].instanceId[1]} ELSE issued
  /\ mintedFor' = IF h[p].req.kind = "connect" /\ h[p].req.instanceId = << >> /\ h[p].created
                  THEN mintedFor \cup {<<h[p].req.userId, h[p].instanceId[1]>>}
                  ELSE mintedFor
  /\ answered' = answered + Answers(p)
  /\ UNCHANGED faults
  /\ h' = [q \in Handlers |->
             IF q = p THEN IdleHandler
             ELSE IF Loaded(q) /\ h[p].created
                  THEN [h[q] EXCEPT !.missed = @ \cup {h[p].instanceId[1]}]
                  ELSE h[q]]
  /\ UNCHANGED <<clock, ticks, initialDB, instanceStorageFile, backups, nreq, named>>
  /\ UNCHANGED <<vars_v13, vars_v20, view>>

Step(p) ==
  \/ loadDB(p)
  \/ loadDB_catch(p)
  \/ connect_resolve(p)
  \/ connect_save(p)
  \/ maintenance_backup(p)
  \/ saveDB(p)

Arrive(p, serial) ==
  \/ \E req \in ConnectRequests : Receive(p, req, serial)
  \/ \E req \in HeartbeatRequests : Receive(p, req, serial)
  \/ \E req \in DisconnectRequests : Receive(p, req, serial)
  \/ \E req \in TrackRequests : Receive(p, req, serial)
  \/ \E req \in SystemInfoRequests : Receive(p, req, serial)
  \/ \E req \in QueryRequests : Receive(p, req, serial)
  \/ \E req \in SweepRequests : Receive(p, req, serial)

\* Handlers interleave at their awaits.
Next ==
  \/ Tick
  \/ \E p \in Handlers : Arrive(p, FALSE)
  \/ \E p \in Handlers : Step(p)

\* The dataset an earlier run of the server left behind: Connect(u1) at minute 1.
EarlierId == MintId(1, "a")
EarlierDataset == connectApply(initialDBValue(1), EarlierId, "u1", "Unknown", "ip1", 1)

\* The server starts on a fresh deployment or on the files of an earlier run.
InitRestarted ==
  /\ clock = 1
  /\ ticks = 0
  /\ dbFile = <<EarlierDataset>>
  /\ initialDB = initialDBValue(1)
  /\ instanceStorageFile = <<Put(<< >>, "u1", EarlierId)>>
  /\ backups = << >>
  /\ h = [p \in Handlers |-> IdleHandler]
  /\ issued = {EarlierId}
  /\ nreq = 0
  /\ named = [users |-> {"u1"}, suffixes |-> {"a"}]
  /\ peakSeen = EarlierDataset.statistics.currentConnections
  /\ mintedFor = {<<"u1", EarlierId>>}
  /\ faults = 0
  /\ answered = 0
  /\ Init_v13
  /\ Init_v20
  /\ view = NoView

Spec == (Init \/ InitRestarted) /\ [][Next]_vars

\* Events handled one at a time: a handler starts when no other is in flight.
NextSerial ==
  \/ Tick
  \/ Arrive("h1", TRUE)
  \/ Step("h1")

SpecSerial == Init /\ [][NextSerial]_vars

(***************************************************************************)
(* v2.1.0 with store failures: db.json can be lost between two requests,   *)
(* and a writeFile can reject.                                             *)
(***************************************************************************)
\* loadDB, lines 104-106: db.json has been removed or left unparseable, so the
\* next readFile / JSON.parse throws
StoreLost ==
  /\ AllIdle
  /\ faults < MaxFaults
  /\ dbFile # << >>
  /\ dbFile' = << >>
  /\ faults' = faults + 1
  /\ UNCHANGED <<clock, ticks, initialDB, instanceStorageFile, backups, h, issued,
                 mintedFor, nreq, named, peakSeen, answered>>
  /\ UNCHANGED <<vars_v13, vars_v20, view>>

\* saveDB, lines 116-118: writeFile rejects; the catch logs and saveDB returns
\* normally, so the handler goes on to its res.json as after a write that landed.
saveDB_catch(p) ==
  /\ h[p].pc = "saveDB"
  /\ faults < MaxFaults
  /\ faults' = faults + 1
  /\ issued' = IF h[p].req.kind = "connect" THEN issued \cup {h[p].instanceId[1]} ELSE issued
  /\ mintedFor' = IF h[p].req.kind = "connect" /\ h[p].req.instanceId = << >> /\ h[p].created
                  THEN mintedFor \cup {<<h[p].req.userId, h[p].instanceId[1]>>}
                  ELSE mintedFor
  /\ h' = [h EXCEPT ![p] = IdleHandler]
  /\ answered' = answered + Answers(p)
  /\ UNCHANGED <<clock, ticks, dbFile, initialDB, instanceStorageFile, backups, nreq, named,
                 peakSeen>>
  /\ UNCHANGED <<vars_v13, vars_v20, view>>

\* loadDB, lines 108-109 with saveDB, lines 116-118: the write of initialDB
\* rejects and is logged; loadDB still returns the object initialDB.
loadDB_catch_unsaved(p) ==
  /\ h[p].pc = "loadDB_catch"
  /\ faults < MaxFaults
  /\ faults' = faults + 1
  /\ AfterLoad(p, initialDB, TRUE)
  /\ UNCHANGED <<clock, ticks, dbFile, instanceStorageFile, backups, issued, mintedFor, nreq,
                 named, peakSeen>>
  /\ UNCHANGED <<vars_v13, vars_v20, view>>

NextFaults ==
  \/ Tick
  \/ nreq < MaxFaultyRequests /\ Arrive("h1", TRUE)
  \/ Step("h1")
  \/ StoreLost
  \/ saveDB_catch("h1")
  \/ loadDB_catch_unsaved("h1")

SpecFaults == Init /\ [][NextFaults]_vars

(***************************************************************************)
(* v1.3.0: the handlers, one request at a time                             *)
(***************************************************************************)
\* loadDB, lines 57-66: a parsed copy of the file, or, when the file cannot be
\* read, the object initialDB itself (after saveDB(initialDB))
loadDB_v13 ==
  IF dbFile_v13 # << >>
  THEN [db |-> dbFile_v13[1], shared |-> FALSE]
  ELSE [db |-> initialDB_v13, shared |-> TRUE]

\* saveDB(db), lines 68-70, for the dataset the handler got from loadDB_v13 and
\* modified to db
saveDB_v13(loaded, db) ==
  /\ dbFile_v13' = <<stringify(db)>>
  /\ initialDB_v13' = IF loaded.shared THEN db ELSE initialDB_v13

\* instance ids and addresses are interchangeable: "i2" and "ip2" occur only
\* after "i1" and "ip1" have
Named_v13(field) == {handled_v13[n][field] : n \in 1..Len(handled_v13)}

Handle_v13(req) ==
  /\ Len(handled_v13) < MaxEvents_v13
  /\ req.instanceId # << >> => FirstUse(req.instanceId, <<"i1">>, Named_v13("instanceId"))
  /\ req.ip # "" => FirstUse(req.ip, "ip1", Named_v13("ip"))
  /\ handled_v13' = Append(handled_v13, req)
  /\ UNCHANGED <<now_v13, ticks_v13>>
  /\ UNCHANGED <<vars_v21, vars_v20, view>>

Request_v13(kind, instanceId, userId, ip, reason) ==
  [kind |-> kind, instanceId |-> instanceId, userId |-> userId, ip |-> ip, reason |-> reason]

MaybeIds_v13 == {<< >>} \cup {<<i>> : i \in InstanceIds_v13}

Tick_v13 ==
  /\ ticks_v13 < MaxTicks_v13
  /\ \E d \in {5, 45, TIMEOUTS_concurrent_v13, HOUR} : now_v13' = now_v13 + d
  /\ ticks_v13' = ticks_v13 + 1
  /\ UNCHANGED <<dbFile_v13, initialDB_v13, handled_v13>>
  /\ UNCHANGED <<vars_v21, vars_v20, view>>

\* POST /api/connect, lines 204-318
Connect_v13 ==
  \E instanceId \in MaybeIds_v13, userId \in {<< >>, <<"u1">>}, ip \in Ips_v13 :
    /\ Handle_v13(Request_v13("connect", instanceId, userId, ip, ""))
    /\ IF instanceId = << >>
       THEN UNCHANGED <<dbFile_v13, initialDB_v13>>
       ELSE LET loaded == loadDB_v13
            IN saveDB_v13(loaded, connect_v13(loaded.db, instanceId[1], userId, "Unknown",
                                              ip, now_v13))

\* POST /api/disconnect, lines 321-372
Disconnect_v13 ==
  \E instanceId \in MaybeIds_v13, reason \in Reasons_v13 :
    /\ Handle_v13(Request_v13("disconnect", instanceId, << >>, "", reason))
    /\ IF instanceId = << >>
       THEN UNCHANGED <<dbFile_v13, initialDB_v13>>
       ELSE LET loaded == loadDB_v13
            IN saveDB_v13(loaded, disconnect_v13(loaded.db, instanceId[1], reason, now_v13))

\* POST /api/track, lines 375-409
Track_v13 ==
  \E instanceId \in MaybeIds_v13, userId \in {<< >>, <<"u1">>} :
    /\ Handle_v13(Request_v13("track", instanceId, userId, "", ""))
    /\ IF instanceId = << >> \/ userId = << >>
       THEN UNCHANGED <<dbFile_v13, initialDB_v13>>
       ELSE LET loaded == loadDB_v13
            IN saveDB_v13(loaded, track_v13(loaded.db, instanceId[1], userId[1], now_v13))

\* GET /api/stats, /api/instances, /api/users, lines 412-449: loadDB only, which
\* writes initialDB when there is no file
Get_v13 ==
  /\ Handle_v13(Request_v13("get", << >>, << >>, "", ""))
  /\ dbFile_v13' = IF dbFile_v13 # << >> THEN dbFile_v13 ELSE <<stringify(initialDB_v13)>>
  /\ UNCHANGED initialDB_v13

Next_v13 ==
  \/ Tick_v13
  \/ Connect_v13
  \/ Disconnect_v13
  \/ Track_v13
  \/ Get_v13

SpecSessions == Init /\ [][Next_v13]_vars

(***************************************************************************)
(* v1.3.0: one client that connects and disconnects instance "i1" in turn.  *)
(* A request arrives some seconds after the previous one; the handler reads *)
(* Date.now() on arrival.                                                   *)
(***************************************************************************)
\* Connect/Disconnect cycles completed so far
CyclesDone == Len(handled_v13) \div 2

\* a request is handled `after` seconds after the previous one
Arrive_cycle(req, after) ==
  /\ now_v13' = now_v13 + after
  /\ handled_v13' = Append(handled_v13, req)
  /\ UNCHANGED ticks_v13
  /\ UNCHANGED <<vars_v21, vars_v20, view>>

\* POST /api/connect for "i1": at once or 15 minutes after the last Disconnect
Connect_cycle ==
  /\ Len(handled_v13) % 2 = 0
  /\ CyclesDone <= MaxCycles
  /\ \E ip \in Ips_v13, gap \in {0, 900} :
       /\ FirstUse(ip, "ip1", Named_v13("ip"))
       /\ Arrive_cycle(Request_v13("connect", <<"i1">>, << >>, ip, ""), gap)
       /\ LET loaded == loadDB_v13
          IN saveDB_v13(loaded, connect_v13(loaded.db, "i1", << >>, "Unknown", ip, now_v13'))

\* POST /api/disconnect for "i1", reason normal: 5 or 45 seconds after the Connect
Disconnect_cycle ==
  /\ Len(handled_v13) % 2 = 1
  /\ CyclesDone < MaxCycles
  /\ \E lasted \in {5, 45} :
       /\ Arrive_cycle(Request_v13("disconnect", <<"i1">>, << >>, "", "normal"), lasted)
       /\ LET loaded == loadDB_v13
          IN saveDB_v13(loaded, disconnect_v13(loaded.db, "i1", "normal", now_v13'))

NextCycles ==
  \/ Connect_cycle
  \/ Disconnect_cycle

SpecCycles == Init /\ [][NextCycles]_vars

(***************************************************************************)
(* v2.0.0: the handlers, one request at a time                             *)
(***************************************************************************)
\* loadDB, lines 70-79: a parsed copy of the file, or, when the file cannot be
\* read, the object initialDB itself (after saveDB(initialDB))
loadDB_v20 ==
  IF dbFile_v20 # << >>
  THEN [db |-> dbFile_v20[1], shared |-> FALSE]
  ELSE [db |-> initialDB_v20, shared |-> TRUE]

\* saveDB(db), lines 81-83, for the dataset the handler got from loadDB_v20 and
\* modified to db
saveDB_v20(loaded, db) ==
  /\ dbFile_v20' = <<db>>
  /\ initialDB_v20' = IF loaded.shared THEN db ELSE initialDB_v20

\* a request is taken up and answered
Handle_v20(response) ==
  /\ nreq_v20 < MaxEvents_v20
  /\ nreq_v20' = nreq_v20 + 1
  /\ response_v20' = response
  /\ UNCHANGED <<now_v20, ticks_v20>>
  /\ UNCHANGED <<vars_v21, vars_v13, view>>

\* the event `kind` has been sent for instance id
Touch_v20(id, kind) == touched_v20' = Put(touched_v20, id, [kind |-> kind, at |-> now_v20])

\* ids a caller can put in a request: one it was given, or one of its own making
KnownIds_v20 == issued_v20 \cup ForeignIds_v20

\* The clock advances by 10 or by 30 minutes.
Tick_v20 ==
  /\ ticks_v20 < MaxTicks_v20
  /\ \E d \in {10, TIMEOUTS_concurrent_v20} : now_v20' = now_v20 + d
  /\ ticks_v20' = ticks_v20 + 1
  /\ UNCHANGED <<dbFile_v20, initialDB_v20, backups_v20, response_v20, issued_v20,
                 touched_v20, nreq_v20>>
  /\ UNCHANGED <<vars_v21, vars_v13, view>>

\* POST /api/connect, lines 140-208
Connect_v20 ==
  \E supplied \in {<< >>} \cup {<<i>> : i \in KnownIds_v20}, userId \in {<< >>, <<"u1">>} :
    IF userId = << >>
    THEN /\ Handle_v20([kind |-> "connect", status |-> 400, supplied |-> supplied])
         /\ UNCHANGED <<dbFile_v20, initialDB_v20, backups_v20, issued_v20, touched_v20>>
    ELSE LET loaded == loadDB_v20
             instanceId == resolveInstanceId_v20(loaded.db, supplied)
         IN /\ Handle_v20([kind |-> "connect", status |-> 200, supplied |-> supplied,
                           instanceId |-> instanceId])
            /\ saveDB_v20(loaded, connect_v20(loaded.db, instanceId, userId[1], "Unknown",
                                              "ip1", now_v20))
            /\ issued_v20' = issued_v20 \cup {instanceId}
            /\ Touch_v20(instanceId, "connect")
            /\ UNCHANGED backups_v20

\* POST /api/disconnect-instances, lines 211-243
Disconnect_v20 ==
  \E instanceId \in KnownIds_v20 :
    LET loaded == loadDB_v20
    IN /\ Handle_v20([kind |-> "disconnect", status |-> 200, instanceId |-> instanceId])
       /\ saveDB_v20(loaded, disconnect_v20(loaded.db, instanceId, "unknown", now_v20))
       /\ Touch_v20(instanceId, "disconnect")
       /\ UNCHANGED <<backups_v20, issued_v20>>

\* POST /api/track, lines 246-317
Track_v20 ==
  \E instanceId \in KnownIds_v20, em \in TrackEvents_v20 :
    LET loaded == loadDB_v20
    IN /\ Handle_v20([kind |-> "track", status |-> 200, instanceId |-> instanceId])
       /\ saveDB_v20(loaded, track_v20(loaded.db, instanceId, "u1", em[1], em[2], now_v20))
       /\ Touch_v20(instanceId, "track")
       /\ UNCHANGED <<backups_v20, issued_v20>>

\* POST /api/system-info, lines 320-347
SystemInfo_v20 ==
  \E instanceId \in KnownIds_v20 :
    LET loaded == loadDB_v20
    IN /\ Handle_v20([kind |-> "systemInfo", status |-> 200, instanceId |-> instanceId])
       /\ saveDB_v20(loaded, systemInfo_v20(loaded.db, instanceId, "si1", now_v20))
       /\ Touch_v20(instanceId, "systemInfo")
       /\ UNCHANGED <<backups_v20, issued_v20>>

\* GET /api/stats, lines 385-417: loadDB, which writes initialDB when there is
\* no file, then the clock is read and the counts are answered
Stats_v20 ==
  LET loaded == loadDB_v20
  IN /\ Handle_v20([kind |-> "stats", status |-> 200, now |-> now_v20,
                    body |-> stats_v20(loaded.db, now_v20)])
     /\ dbFile_v20' = IF dbFile_v20 # << >> THEN dbFile_v20 ELSE <<initialDB_v20>>
     /\ UNCHANGED <<initialDB_v20, backups_v20, issued_v20, touched_v20>>

\* ensurePersistentData, lines 89-113, run from setInterval and from app.listen
Maintenance_v20 ==
  LET loaded == loadDB_v20
  IN /\ Handle_v20([kind |-> "maintenance"])
     /\ backups_v20' = retainBackups(Put(backups_v20, getDailyKey(now_v20), loaded.db))
     /\ saveDB_v20(loaded, [loaded.db EXCEPT !.settings.lastMaintenance = <<now_v20>>])
     /\ UNCHANGED <<issued_v20, touched_v20>>

Next_v20 ==
  \/ Tick_v20
  \/ Connect_v20
  \/ Disconnect_v20
  \/ Track_v20
  \/ SystemInfo_v20
  \/ Stats_v20
  \/ Maintenance_v20

SpecV20 == Init /\ [][Next_v20]_vars

(***************************************************************************)
(* One deployment runs one of the servers: v2.1.0 or v2.0.0, requests      *)
(* handled one at a time.                                                  *)
(***************************************************************************)
\* the v2.1.0 server has not been used
Unused_v21 == nreq = 0 /\ ticks = 0
\* the v2.0.0 server has not been used
Unused_v20 == nreq_v20 = 0 /\ ticks_v20 = 0

NextEither ==
  \/ Unused_v20 /\ Tick
  \/ Unused_v20 /\ Arrive("h1", TRUE)
  \/ Unused_v20 /\ Step("h1")
  \/ Unused_v21 /\ Next_v20

SpecEither == Init /\ [][NextEither]_vars

(***************************************************************************)
(* The query endpoints answer for any dataset at any time                  *)
(***************************************************************************)
\* res.json of a query endpoint: the two filtered arrays and their lengths
Reply(endpoint, instances, now, active, inactive) ==
  /\ view = NoView
  /\ view' = [endpoint |-> endpoint, instances |-> instances, now |-> now,
               activeInstances |-> active, inactiveInstances |-> inactive,
               total |-> Cardinality(DOMAIN instances),
               active |-> Cardinality(active), inactive |-> Cardinality(inactive)]
  /\ UNCHANGED <<vars_v21, vars_v13, vars_v20>>

\* v2.1.0: GET /api/stats, lines 525-561
api_stats ==
  \E instances \in ViewDatasets, now \in ViewClocks :
    Reply("stats", instances, now,
          {id \in DOMAIN instances : isActive(instances[id], now)},
          {id \in DOMAIN instances : isInactive(instances[id], now)})

\* v2.1.0: GET /api/instances, lines 564-582: filter(i => !i.isActive)
api_instances ==
  \E instances \in ViewDatasets, now \in ViewClocks :
    Reply("instances", instances, now,
          {id \in DOMAIN instances : isActive(instances[id], now)},
          {id \in DOMAIN instances : ~isActive(instances[id], now)})

\* v2.1.0: GET /api/connection-health, lines 603-647
api_connection_health ==
  \E instances \in ViewDatasets, now \in ViewClocks :
    Reply("connection-health", instances, now,
          {id \in DOMAIN instances : isActive(instances[id], now)},
          {id \in DOMAIN instances : isInactive(instances[id], now)})

\* v2.0.0: GET /api/stats, lines 385-417
api_stats_v20 ==
  \E instances \in ViewDatasets, now \in ViewClocks :
    Reply("stats_v20", instances, now,
          {id \in DOMAIN instances : isActive_v20(instances[id], now)},
          {id \in DOMAIN instances : isInactive_v20(instances[id], now)})

\* v2.0.0: GET /api/instances, lines 431-448: filter(i => !i.isActive)
api_instances_v20 ==
  \E instances \in ViewDatasets, now \in ViewClocks :
    Reply("instances_v20", instances, now,
          {id \in DOMAIN instances : isActive_v20(instances[id], now)},
          {id \in DOMAIN instances : ~isActive_v20(instances[id], now)})

\* v2.0.0: GET /api/connection-health, lines 486-520
api_connection_health_v20 ==
  \E instances \in ViewDatasets, now \in ViewClocks :
    Reply("connection-health_v20", instances, now,
          {id \in DOMAIN instances : isActive_v20(instances[id], now)},
          {id \in DOMAIN instances : isInactive_v20(instances[id], now)})

NextViews ==
  \/ api_stats
  \/ api_instances
  \/ api_connection_health
  \/ api_stats_v20
  \/ api_instances_v20
  \/ api_connection_health_v20

SpecViews == Init /\ [][NextViews]_vars

(***************************************************************************)
(* v2.1.0: properties                                                      *)
(***************************************************************************)

\* The dataset a db.json holds; a missing file stands for the initial dataset, which
\* is what loadDB creates from it.
Persisted(file) == IF file = << >> THEN initialDBValue(1) ELSE file[1]

\* handler p answers its request in this step
Completes(p) == h[p].pc # "idle" /\ h'[p].pc = "idle"

\* the instance id handler p's request names (Disconnect, Heartbeat, SystemInfo, Track)
RequestedId(p) == h[p].req.instanceId[1]

\* C1: when a handler q loaded the dataset before another Connect's save created
\* instance x, and q saves after that save, q's save overwrites the whole document
\* and x (the other request's change) is absent from the persisted dataset.
C1_LastSaveDiscardsOtherDelta ==
  [][\A q \in Handlers :
       (h[q].pc = "saveDB" /\ h'[q].pc = "idle")
       => \A x \in h[q].missed :
            (h[q].instanceId = << >> \/ x # h[q].instanceId[1])
            => ~Has(dbFile'[1].instances, x)]_vars

\* C3: handled one at a time, the persisted counters totalConnections,
\* disconnections, reconnections, totalMessages and heartbeats, and the
\* connectionCount of every instance that stays, never decrease from one persisted
\* state to the next.
C3_CountersNeverDecrease ==
  [][(dbFile # << >> /\ dbFile' # << >>)
     => LET a == dbFile[1]
            b == dbFile'[1]
        IN /\ b.statistics.totalConnections >= a.statistics.totalConnections
           /\ b.statistics.disconnections >= a.statistics.disconnections
           /\ b.statistics.reconnections >= a.statistics.reconnections
           /\ b.statistics.totalMessages >= a.statistics.totalMessages
           /\ b.statistics.heartbeats >= a.statistics.heartbeats
           /\ \A id \in (DOMAIN a.instances) \cap (DOMAIN b.instances) :
                b.instances[id].connectionCount >= a.instances[id].connectionCount]_vars

\* C3 witness: a persisted dataset in which every one of the counters has been raised
\* and an instance has connected more than once.
C3_Witness ==
  /\ AllIdle
  /\ dbFile # << >>
  /\ dbFile[1].statistics.totalConnections >= 1
  /\ dbFile[1].statistics.disconnections >= 1
  /\ dbFile[1].statistics.reconnections >= 1
  /\ \E id \in DOMAIN dbFile[1].instances : dbFile[1].instances[id].connectionCount >= 2

\* C4: handled one at a time, the persisted peakConnections equals the largest
\* currentConnections any persisted dataset has held so far (0 initially).
C4_PeakIsMaxOfCurrent ==
  Persisted(dbFile).statistics.peakConnections = peakSeen

\* C4 witness: currentConnections has fallen below an earlier maximum.
C4_Witness ==
  /\ AllIdle
  /\ dbFile # << >>
  /\ peakSeen >= 1
  /\ dbFile[1].statistics.currentConnections < peakSeen

\* C5: peakConnections never decreases from one persisted dataset to the next, also
\* when handlers interleave.
C5_PeakNeverDecreases ==
  [][(dbFile # << >> /\ dbFile' # << >>)
     => dbFile'[1].statistics.peakConnections >= dbFile[1].statistics.peakConnections]_vars

\* C6: in every execution the persisted lastActive and lastHeartbeat of an instance
\* never decrease from one persisted state to the next, and firstSeen <= lastActive
\* for every persisted instance.
C6_TimestampsNeverDecrease ==
  [][dbFile' # << >>
     => /\ \A id \in DOMAIN dbFile'[1].instances :
             dbFile'[1].instances[id].firstSeen <= dbFile'[1].instances[id].lastActive
        /\ dbFile # << >>
           => \A id \in (DOMAIN dbFile[1].instances) \cap (DOMAIN dbFile'[1].instances) :
                /\ dbFile'[1].instances[id].lastActive >= dbFile[1].instances[id].lastActive
                /\ dbFile'[1].instances[id].lastHeartbeat
                     >= dbFile[1].instances[id].lastHeartbeat]_vars

\* C7: handled with no other request in flight, a Disconnect, Heartbeat or SystemInfo
\* whose instanceId is not a key of instances leaves the persisted dataset as it was.
C7_UnknownIdLeavesDataset ==
  [][\A p \in Handlers :
       (/\ Completes(p)
        /\ h[p].req.kind \in {"disconnect", "heartbeat", "systemInfo"}
        /\ ~Has(Persisted(h[p].before[1]).instances, RequestedId(p)))
       => Persisted(dbFile') = Persisted(h[p].before[1])]_vars

\* C7 witness: a Disconnect for an unknown id, on a dataset that holds an instance,
\* has run its handler and is about to write.
C7_Witness ==
  \E p \in Handlers :
    /\ h[p].pc = "saveDB"
    /\ h[p].req.kind = "disconnect"
    /\ h[p].before # << >>
    /\ DOMAIN Persisted(h[p].before[1]).instances # {}
    /\ ~Has(Persisted(h[p].before[1]).instances, RequestedId(p))

\* C8: a Connect that resolves to an instance that is already connected changes no
\* counter (connectionCount, totalConnections, reconnections) and refreshes only
\* lastActive and lastHeartbeat of the instance.
C8_DuplicateConnectCountsNothing ==
  [][\A p \in Handlers :
       (/\ Completes(p)
        /\ h[p].req.kind = "connect"
        /\ Has(Persisted(h[p].before[1]).instances, h[p].instanceId[1])
        /\ Persisted(h[p].before[1]).instances[h[p].instanceId[1]].status = "connected")
       => LET b == Persisted(h[p].before[1])
              a == Persisted(dbFile')
              id == h[p].instanceId[1]
          IN /\ a.statistics.totalConnections = b.statistics.totalConnections
             /\ a.statistics.reconnections = b.statistics.reconnections
             /\ a.instances[id] = [b.instances[id] EXCEPT !.lastActive = h[p].now,
                                                          !.lastHeartbeat = h[p].now]]_vars

\* C9: reconnections rises by one exactly for a Connect that resolves to an existing
\* disconnected instance; that Connect raises the instance's connectionCount by one,
\* sets it connected and leaves totalConnections alone; totalConnections rises (by
\* one) exactly for a Connect that creates an instance.
C9_ReconnectionAccounting ==
  [][\A p \in Handlers :
       Completes(p)
       => LET b == Persisted(h[p].before[1])
              a == Persisted(dbFile')
              isConnect == h[p].req.kind = "connect"
              id == h[p].instanceId[1]
              existed == isConnect /\ Has(b.instances, id)
              reconnect == existed /\ b.instances[id].status = "disconnected"
          IN /\ a.statistics.reconnections
                  = b.statistics.reconnections + (IF reconnect THEN 1 ELSE 0)
             /\ a.statistics.totalConnections
                  = b.statistics.totalConnections + (IF isConnect /\ ~existed THEN 1 ELSE 0)
             /\ reconnect
                => /\ a.instances[id].connectionCount = b.instances[id].connectionCount + 1
                   /\ a.instances[id].status = "connected"]_vars

\* C9 witness: a reconnect has been persisted after other events.
C9_Witness ==
  /\ AllIdle
  /\ dbFile # << >>
  /\ dbFile[1].statistics.reconnections = 1
  /\ dbFile[1].statistics.totalConnections = 1
  /\ \E id \in DOMAIN dbFile[1].instances :
       /\ dbFile[1].instances[id].connectionCount = 2
       /\ dbFile[1].instances[id].status = "connected"
       /\ dbFile[1].instances[id].lastDisconnect # << >>

(***************************************************************************)
(* v1.3.0: properties                                                      *)
(***************************************************************************)
\* the sessions of an instance that have no `end`
OpenSessions(instance) == {n \in 1..Len(instance.sessions) : instance.sessions[n].end = << >>}

\* every request handled so far is a Connect or a Disconnect with an instanceId
OnlyConnectsAndDisconnects ==
  \A n \in 1..Len(handled_v13) :
       /\ handled_v13[n].kind \in {"connect", "disconnect"}
       /\ handled_v13[n].instanceId # << >>

\* C2: after any sequence of Connect and Disconnect events handled one at a
\* time, every instance of the persisted dataset has exactly one element of
\* `sessions` without `end` when its status is connected and none when its
\* status is disconnected.
C2_SessionInvariant ==
  (dbFile_v13 # << >> /\ OnlyConnectsAndDisconnects) =>
    \A id \in DOMAIN dbFile_v13[1].instances :
      LET instance == dbFile_v13[1].instances[id]
      IN Cardinality(OpenSessions(instance)) = IF instance.status = "connected" THEN 1 ELSE 0

\* the requests of end-to-end scenario 3, in order
ScenarioThree ==
  /\ Len(handled_v13) = 3
  /\ handled_v13[1].kind = "connect" /\ handled_v13[1].instanceId = <<"i1">>
  /\ handled_v13[2].kind = "disconnect" /\ handled_v13[2].instanceId = <<"i1">>
  /\ handled_v13[2].reason = "normal"
  /\ handled_v13[3].kind = "connect" /\ handled_v13[3].instanceId = <<"i1">>

\* C10: Connect(i1), Disconnect(i1, normal), Connect(i1) on an empty dataset ends
\* with reconnections = 1, connectionCount of i1 = 2 and a persisted `sessions`
\* of exactly two elements, the first closed (end and duration set), the
\* second open.
C10_ReconnectScenario ==
  ScenarioThree =>
    LET db == dbFile_v13[1]
        sessions == db.instances["i1"].sessions
    IN /\ db.statistics.reconnections = 1
       /\ db.instances["i1"].connectionCount = 2
       /\ Len(sessions) = 2
       /\ sessions[1].end # << >> /\ sessions[1].duration # << >>
       /\ sessions[2].end = << >>

(***************************************************************************)
(* v2.0.0: properties                                                      *)
(***************************************************************************)
\* the last request answered was a stats query
StatsAnswered == response_v20.kind = "stats"

\* minutes between the Connect that was the last event for instance id and the
\* stats query last answered
QuietFor(id) == response_v20.now - touched_v20[id].at

\* instances for which a Connect is the last event sent
ConnectedAndQuiet == {id \in DOMAIN touched_v20 : touched_v20[id].kind = "connect"}

\* C11: an instance that connected and sent nothing since is counted active by a
\* stats query made less than 30 minutes after the Connect and inactive by one
\* made 30 minutes or more after it; its stored status stays connected.
C11_StatsWindow ==
  StatsAnswered =>
    \A id \in ConnectedAndQuiet :
      /\ QuietFor(id) < 30 =>
           /\ id \in response_v20.body.activeInstances
           /\ id \notin response_v20.body.inactiveInstances
      /\ QuietFor(id) >= 30 =>
           /\ id \in response_v20.body.inactiveInstances
           /\ id \notin response_v20.body.activeInstances
      /\ dbFile_v20[1].instances[id].status = "connected"

\* C11 witness: one stats answer with an instance 10 minutes after its Connect,
\* counted active, and another 40 minutes after its Connect, counted inactive.
C11_Witness ==
  /\ StatsAnswered
  /\ \E a, b \in ConnectedAndQuiet :
       /\ QuietFor(a) = 10 /\ a \in response_v20.body.activeInstances
       /\ QuietFor(b) = 40 /\ b \in response_v20.body.inactiveInstances
       /\ dbFile_v20[1].instances[b].status = "connected"

(***************************************************************************)
(* properties of more than one version                                     *)
(***************************************************************************)
Persisted_v20(file) == IF file = << >> THEN initialDBValue_v20(1) ELSE file[1]

\* a dataset on which nothing has connected yet
EmptyDataset(db) ==
  /\ DOMAIN db.instances = {}
  /\ db.statistics.totalConnections = 0
  /\ db.statistics.peakConnections = 0

\* the dataset holds instance id alone, connected once, and counts one connection
OneInstance(db, id) ==
  /\ DOMAIN db.instances = {id}
  /\ db.instances[id].status = "connected"
  /\ db.instances[id].connectionCount = 1
  /\ db.statistics.totalConnections = 1
  /\ db.statistics.currentConnections = 1
  /\ db.statistics.peakConnections = 1

\* v2.1.0: the handler answers a Connect that named no instanceId and found an
\* empty dataset
C12_Case_v21(p) ==
  /\ Completes(p)
  /\ h[p].req.kind = "connect"
  /\ h[p].req.instanceId = << >>
  /\ h[p].before # << >>
  /\ EmptyDataset(Persisted(h[p].before[1]))

\* v2.0.0: a Connect that named no instanceId is answered on an empty dataset
C12_Case_v20 ==
  /\ nreq_v20' = nreq_v20 + 1
  /\ response_v20'.kind = "connect"
  /\ response_v20'.status = 200
  /\ response_v20'.supplied = << >>
  /\ EmptyDataset(Persisted_v20(dbFile_v20))

\* C12: a Connect with a userId and no instanceId on an empty dataset returns a
\* minted instanceId, and the persisted dataset then has exactly that instance,
\* connected, connectionCount 1, with totalConnections = currentConnections =
\* peakConnections = 1 (v2.1.0 and v2.0.0).
C12_FirstConnect ==
  [][/\ \A p \in Handlers :
          C12_Case_v21(p) =>
            /\ h[p].instanceId # << >>
            /\ h[p].instanceId[1] \in issued'
            /\ \E t \in 1..clock, r \in RandomSuffixes : h[p].instanceId[1] = MintId(t, r)
            /\ dbFile' # << >>
            /\ OneInstance(dbFile'[1], h[p].instanceId[1])
     /\ C12_Case_v20 =>
          /\ response_v20'.instanceId = <<"marxbot", 1>>
          /\ response_v20'.instanceId \in issued_v20'
          /\ dbFile_v20' # << >>
          /\ OneInstance(dbFile_v20'[1], response_v20'.instanceId)]_vars

\* C12 witness: the first request of the v2.0.0 server was a Connect without
\* instanceId; it answered marxbot_1 and the file holds that instance alone.
C12_Witness ==
  /\ nreq_v20 = 1
  /\ response_v20.kind = "connect" /\ response_v20.status = 200
  /\ response_v20.supplied = << >>
  /\ response_v20.instanceId = <<"marxbot", 1>>
  /\ dbFile_v20 # << >>
  /\ OneInstance(dbFile_v20[1], <<"marxbot", 1>>)

\* the same case for v2.1.0: the handler is about to write the dataset
C12_Reached_v21 ==
  /\ h["h1"].pc = "saveDB"
  /\ h["h1"].req.kind = "connect" /\ h["h1"].req.instanceId = << >>
  /\ h["h1"].before # << >> /\ EmptyDataset(Persisted(h["h1"].before[1]))
  /\ OneInstance(h["h1"].pending[1], h["h1"].instanceId[1])

(***************************************************************************)
(* v1.3.0: properties of the quality classifier                            *)
(***************************************************************************)
\* seconds between the k-th Connect recorded in connectionEvents and the
\* Disconnect that follows it
SessionLasted(db, k) ==
  db.statistics.connectionEvents[2 * k].timestamp
    - db.statistics.connectionEvents[2 * k - 1].timestamp

\* "i1" has made five Connect/Disconnect cycles, each session lasting 5 seconds,
\* all within one hour of its firstSeen
FiveShortCycles ==
  /\ Len(handled_v13) = 10
  /\ \A n \in 1..10 : handled_v13[n].instanceId = <<"i1">>
  /\ \A k \in 1..5 : /\ handled_v13[2 * k - 1].kind = "connect"
                     /\ handled_v13[2 * k].kind = "disconnect"
                     /\ SessionLasted(dbFile_v13[1], k) = 5
  /\ now_v13 - dbFile_v13[1].instances["i1"].firstSeen < HOUR

\* C13: after five Connect/Disconnect cycles on one instance within an hour of
\* its firstSeen, each session lasting 5 seconds, qualityIssues contains
\* frequent_reconnections and short_sessions and healthScore is at most 50.
C13_FiveCycles ==
  FiveShortCycles =>
    LET instance == dbFile_v13[1].instances["i1"]
    IN /\ Includes(instance.qualityIssues, "frequent_reconnections")
       /\ Includes(instance.qualityIssues, "short_sessions")
       /\ instance.healthScore <= 50

\* a sixth Connect of "i1" has followed five cycles, within an hour of firstSeen
SixthConnect ==
  /\ Len(handled_v13) = 11
  /\ \A n \in 1..11 : handled_v13[n].instanceId = <<"i1">>
  /\ \A k \in 1..6 : handled_v13[2 * k - 1].kind = "connect"
  /\ \A k \in 1..5 : handled_v13[2 * k].kind = "disconnect"
  /\ now_v13 - dbFile_v13[1].instances["i1"].firstSeen < HOUR

\* C13, as the code has it: after the five cycles connectionCount is 5, which is
\* not more than 5, so qualityIssues has short_sessions without
\* frequent_reconnections, and healthScore is at most 50; frequent_reconnections
\* is there after the sixth Connect within the hour.
C13_FiveCyclesAmended ==
  /\ FiveShortCycles =>
       LET instance == dbFile_v13[1].instances["i1"]
       IN /\ instance.connectionCount = 5
          /\ ~Includes(instance.qualityIssues, "frequent_reconnections")
          /\ Includes(instance.qualityIssues, "short_sessions")
          /\ instance.healthScore <= 50
  /\ SixthConnect =>
       Includes(dbFile_v13[1].instances["i1"].qualityIssues, "frequent_reconnections")

\* C13 witness: the five short cycles have been made within the hour.
C13_Witness ==
  /\ FiveShortCycles
  /\ dbFile_v13[1].instances["i1"].disconnectionCount = 5
  /\ dbFile_v13[1].instances["i1"].status = "disconnected"

\* the fraction q lies in [0, 100]
InPercentRange(q) == 0 <= q.num /\ q.num <= 100 * q.den

\* C14: in every persisted dataset each instance's healthScore and the dataset's
\* stabilityScore, healthScore and connectionQuality lie in [0, 100];
\* stabilityScore is 100 while totalConnections is 0 and connectionQuality is 100
\* while no connection event is recorded.
C14_ClassifierBounds ==
  dbFile_v13 # << >> =>
    LET db == dbFile_v13[1]
        q == db.statistics.qualityMetrics
    IN /\ \A id \in DOMAIN db.instances :
            0 <= db.instances[id].healthScore /\ db.instances[id].healthScore <= 100
       /\ InPercentRange(q.stabilityScore)
       /\ 0 <= q.healthScore /\ q.healthScore <= 100
       /\ InPercentRange(q.connectionQuality)
       /\ db.statistics.totalConnections = 0 => q.stabilityScore = Rat(100, 1)
       /\ (\A n \in 1..Len(db.statistics.connectionEvents) :
             db.statistics.connectionEvents[n].type # "connection")
          => q.connectionQuality = Rat(100, 1)

\* C14 witness: failed disconnections outnumber the connections, so that the
\* scores sit at the lower end of the range, and an instance has lost points.
C14_Witness ==
  /\ dbFile_v13 # << >>
  /\ dbFile_v13[1].statistics.qualityMetrics.stabilityScore.num = 0
  /\ Len(SelectSeq(dbFile_v13[1].statistics.connectionEvents, isFailure))
       > dbFile_v13[1].statistics.totalConnections
  /\ \E id \in DOMAIN dbFile_v13[1].instances : dbFile_v13[1].instances[id].healthScore < 50

\* C15: connectionCount >= disconnectionCount for every instance of every
\* persisted dataset, whatever the instance's status is when a Disconnect arrives.
C15_ConnectionsCoverDisconnections ==
  dbFile_v13 # << >> =>
    \A id \in DOMAIN dbFile_v13[1].instances :
      dbFile_v13[1].instances[id].connectionCount
        >= dbFile_v13[1].instances[id].disconnectionCount

(***************************************************************************)
(* v2.1.0: properties of single events                                     *)
(***************************************************************************)
\* C16: a Heartbeat on a known instance changes only that instance's
\* lastHeartbeat and lastActive, both to the heartbeat's time, and raises
\* statistics.heartbeats by one; status, connectionCount, the other instances,
\* the users and the other statistics stay.
C16_HeartbeatFrame ==
  [][\A p \in Handlers :
       (/\ Completes(p)
        /\ h[p].req.kind = "heartbeat"
        /\ h[p].before # << >>
        /\ Has(Persisted(h[p].before[1]).instances, RequestedId(p)))
       => LET b == Persisted(h[p].before[1])
              a == Persisted(dbFile')
              id == RequestedId(p)
          IN /\ a.instances[id].lastHeartbeat = h[p].now
             /\ a.instances[id].lastActive = h[p].now
             /\ a.statistics.heartbeats = b.statistics.heartbeats + 1
             /\ a.instances[id] = [b.instances[id] EXCEPT !.lastHeartbeat = h[p].now,
                                                          !.lastActive = h[p].now]
             /\ \A x \in DOMAIN b.instances : x # id => a.instances[x] = b.instances[x]
             /\ DOMAIN a.instances = DOMAIN b.instances
             /\ a.users = b.users
             /\ a.settings = b.settings
             /\ a.statistics = [b.statistics EXCEPT !.heartbeats = @ + 1]]_vars

\* C16 witness: a Heartbeat on an instance has been persisted after its
\* Disconnect; the instance is still disconnected with its connectionCount of 1.
C16_Witness ==
  /\ AllIdle
  /\ dbFile # << >>
  /\ dbFile[1].statistics.heartbeats >= 1
  /\ \E id \in DOMAIN dbFile[1].instances :
       /\ dbFile[1].instances[id].status = "disconnected"
       /\ dbFile[1].instances[id].connectionCount = 1
       /\ dbFile[1].instances[id].lastHeartbeat > dbFile[1].instances[id].lastDisconnect[1].timestamp

\* C17: after every Connect, and every Disconnect, Heartbeat, Track and
\* SystemInfo of a tracked instance, that has been persisted,
\* statistics.currentConnections equals the number of instances of that dataset
\* that are active at the event's timestamp.
C17_CurrentConnectionsIsRecomputed ==
  [][\A p \in Handlers :
       (/\ Completes(p)
        /\ h[p].pc = "saveDB"
        /\ h[p].req.kind \in {"connect", "disconnect", "heartbeat", "track", "systemInfo"}
        /\ \/ h[p].req.kind = "connect"
           \/ /\ h[p].before # << >>
              /\ Has(Persisted(h[p].before[1]).instances, RequestedId(p)))
       => LET a == dbFile'[1]
          IN a.statistics.currentConnections
               = Cardinality({id \in DOMAIN a.instances : isActive(a.instances[id], h[p].now)})
    ]_vars

\* C18: a Connect that supplies an instanceId which is not yet a key of
\* `instances` creates the new instance under the supplied id and returns that
\* same id.
C18_SuppliedUnknownIdIsKept ==
  [][\A p \in Handlers :
       (/\ Completes(p)
        /\ h[p].req.kind = "connect"
        /\ h[p].req.instanceId # << >>
        /\ h[p].before # << >>
        /\ ~Has(Persisted(h[p].before[1]).instances, RequestedId(p)))
       => /\ h[p].instanceId = <<RequestedId(p)>>
          /\ Has(Persisted(dbFile').instances, RequestedId(p))
          /\ DOMAIN Persisted(dbFile').instances
               = DOMAIN Persisted(h[p].before[1]).instances \cup {RequestedId(p)}
    ]_vars

\* the ids minted so far for Connects of userId that named no instanceId
MintedFor(userId) == {m[2] : m \in {n \in mintedFor : n[1] = userId}}

\* C19: after a Connect(userId) without instanceId has minted id X for that
\* user, a later Connect(userId) without instanceId, made while X is still in
\* the dataset, resolves to X: it returns X, creates no new instance and raises
\* X's connectionCount by one.
C19_ConnectResolvesToMintedId ==
  [][\A p \in Handlers : \A X \in MintedFor(h[p].req.userId) :
       (/\ Completes(p)
        /\ h[p].req.kind = "connect"
        /\ h[p].req.instanceId = << >>
        /\ MintedFor(h[p].req.userId) = {X}
        /\ h[p].before # << >>
        /\ Has(Persisted(h[p].before[1]).instances, X))
       => LET b == Persisted(h[p].before[1])
              a == Persisted(dbFile')
          IN /\ h[p].instanceId = <<X>>
             /\ DOMAIN a.instances = DOMAIN b.instances
             /\ a.instances[X].connectionCount = b.instances[X].connectionCount + 1
    ]_vars

(***************************************************************************)
(* v2.0.0: properties of single events.                                    *)
(***************************************************************************)

\* C20: a Connect that supplies the instanceId returned by an earlier Connect,
\* while that instance is in the dataset, is resolved to that same instance: the
\* response carries the supplied id, no new instance is created, and that
\* instance's connectionCount rises by one.
C20_OwnIdIsResolved ==
  [][(/\ nreq_v20' = nreq_v20 + 1
      /\ response_v20'.kind = "connect"
      /\ response_v20'.status = 200
      /\ response_v20'.supplied # << >>
      /\ response_v20'.supplied[1] \in issued_v20
      /\ Has(Persisted_v20(dbFile_v20).instances, response_v20'.supplied[1]))
     => LET id == response_v20'.supplied[1]
            b == Persisted_v20(dbFile_v20)
            a == Persisted_v20(dbFile_v20')
        IN /\ response_v20'.instanceId = id
           /\ DOMAIN a.instances = DOMAIN b.instances
           /\ a.instances[id].connectionCount = b.instances[id].connectionCount + 1
    ]_vars

\* C21: whenever Connect mints an id (marxbot_<number of instances + 1>), the
\* minted id differs from the id of every instance already in the dataset and
\* from every id returned by an earlier Connect, so a minting Connect creates a
\* new instance and never updates an existing one.
C21_MintedIdIsFresh ==
  [][(/\ nreq_v20' = nreq_v20 + 1
      /\ response_v20'.kind = "connect"
      /\ response_v20'.status = 200
      /\ \/ response_v20'.supplied = << >>
         \/ Has(Persisted_v20(dbFile_v20).instances, response_v20'.supplied[1]))
     => LET b == Persisted_v20(dbFile_v20)
            a == Persisted_v20(dbFile_v20')
            id == response_v20'.instanceId
        IN /\ ~Has(b.instances, id)
           /\ id \notin issued_v20
           /\ DOMAIN a.instances = DOMAIN b.instances \cup {id}
    ]_vars

(***************************************************************************)
(* v2.1.0: queries and store failures.                                     *)
(***************************************************************************)

\* C22: a query never writes the durable store: the persisted dataset (an
\* unreadable store counting as the empty dataset) is the same after every step
\* of a query as before it.
C22_QueriesDoNotWrite ==
  [][\A p \in Handlers :
       (h[p].req.kind = "query" /\ h'[p] # h[p])
       => Persisted(dbFile') = Persisted(dbFile)
    ]_vars

\* a dataset with no instances, no users and every counter and breakdown at its
\* initial value
NothingRecorded(db) ==
  /\ DOMAIN db.instances = {}
  /\ DOMAIN db.users = {}
  /\ db.statistics = initialDBValue(1).statistics

\* C23: whenever loadDB cannot read or parse the store, the dataset it hands to
\* the handler is empty (no instances, no users, every counter 0), on every such
\* failure during the life of the process.
C23_FailedLoadGivesEmptyDataset ==
  [][\A p \in Handlers :
       (h[p].pc = "loadDB_catch" /\ h'[p].pc # "loadDB_catch")
       => NothingRecorded(initialDB)
    ]_vars

\* the requests that change the dataset
MutatingKinds == {"connect", "disconnect", "heartbeat", "track", "systemInfo"}

\* C24: if the store write fails during a mutating request, the failure is
\* swallowed: the handler still answers, exactly once, and the persisted dataset
\* keeps the value it had before that request.
C24_FailedWriteIsSwallowed ==
  [][\A p \in Handlers :
       (/\ h[p].pc = "saveDB"
        /\ faults' = faults + 1
        /\ h[p].req.kind \in MutatingKinds
        /\ h[p].before # << >>)
       => /\ h'[p].pc = "idle"
          /\ answered' = answered + 1
          /\ dbFile' = dbFile
          /\ Persisted(dbFile') = Persisted(h[p].before[1])
    ]_vars

(***************************************************************************)
(* v2.1.0: Track.                                                          *)
(***************************************************************************)

\* handler p's Track is persisted in this step
TrackPersisted(p) == Completes(p) /\ h[p].pc = "saveDB" /\ h[p].req.kind = "track"

\* the totalMessages of user u in dataset db, 0 while the user is unknown
UserMessages(db, u) == IF Has(db.users, u) THEN db.users[u].totalMessages ELSE 0

\* C25: statistics.totalMessages rises by exactly one for each Track whose
\* eventType is message, together with that user's totalMessages and, when a
\* messageType is given, messageTypes[messageType]; no other event or eventType
\* changes totalMessages.
C25_MessagesCounted ==
  [][LET b == Persisted(dbFile)
         a == Persisted(dbFile')
     IN IF \E p \in Handlers : TrackPersisted(p) /\ h[p].req.eventType = <<"message">>
        THEN \A p \in Handlers :
               (TrackPersisted(p) /\ h[p].req.eventType = <<"message">>)
               => LET r == h[p].req
                  IN /\ a.statistics.totalMessages = b.statistics.totalMessages + 1
                     /\ a.users[r.userId].totalMessages = UserMessages(b, r.userId) + 1
                     /\ \A u \in DOMAIN b.users :
                          u # r.userId => a.users[u].totalMessages = b.users[u].totalMessages
                     /\ a.statistics.messageTypes =
                          IF r.messageType # << >>
                          THEN Inc(b.statistics.messageTypes, r.messageType[1])
                          ELSE b.statistics.messageTypes
        ELSE /\ a.statistics.totalMessages = b.statistics.totalMessages
             /\ a.statistics.messageTypes = b.statistics.messageTypes
             /\ \A u \in DOMAIN b.users :
                  Has(a.users, u) /\ a.users[u].totalMessages = b.users[u].totalMessages
    ]_vars

\* C25 witness: two message Tracks of one user have been persisted, one of them
\* with messageType text, and then another event that is no message.
C25_Witness ==
  /\ AllIdle
  /\ dbFile # << >>
  /\ nreq = 3
  /\ dbFile[1].statistics.totalMessages = 2
  /\ Has(dbFile[1].users, "u1")
  /\ dbFile[1].users["u1"].totalMessages = 2
  /\ dbFile[1].statistics.messageTypes = Put(<< >>, "text", 1)

\* the event types the dispatch of lines 424-452 knows
DispatchedEventTypes ==
  {<<"message">>, <<"group_update">>, <<"status_update">>, <<"message_reaction">>,
   <<"heartbeat">>}

\* C26: a Track whose eventType is none of message, group_update, status_update,
\* message_reaction, heartbeat (or is missing) changes no statistics counter, no
\* breakdown map and no user counter; it only sets lastActive of the user and of
\* the instance when they exist, and adds the instanceId to the user's instances
\* when missing.
C26_UnknownEventTypeFrame ==
  [][\A p \in Handlers :
       (/\ TrackPersisted(p)
        /\ h[p].req.eventType \notin DispatchedEventTypes
        /\ h[p].before # << >>)
       => LET b == Persisted(h[p].before[1])
              a == Persisted(dbFile')
              id == RequestedId(p)
              u == h[p].req.userId
          IN /\ a.statistics = b.statistics
             /\ a.settings = b.settings
             /\ a.instances =
                  IF Has(b.instances, id)
                  THEN [b.instances EXCEPT ![id].lastActive = h[p].now]
                  ELSE b.instances
             /\ DOMAIN a.users = DOMAIN b.users \cup {u}
             /\ \A v \in DOMAIN b.users : v # u => a.users[v] = b.users[v]
             /\ IF Has(b.users, u)
                THEN a.users[u] =
                       [b.users[u] EXCEPT
                          !.lastActive = h[p].now,
                          !.instances = IF Includes(@, id) THEN @ ELSE Append(@, id)]
                ELSE a.users[u].totalMessages = 0 /\ a.users[u].totalReactions = 0
    ]_vars

\* C26 witness: after a Connect of u1, later Tracks without a dispatched event
\* type have refreshed the instance's lastActive but not its lastHeartbeat and
\* added a second instance id to u1, and no counter or breakdown has moved.
C26_Witness ==
  /\ AllIdle
  /\ dbFile # << >>
  /\ Has(dbFile[1].users, "u1")
  /\ Len(dbFile[1].users["u1"].instances) = 2
  /\ dbFile[1].users["u1"].instances[2] = ForeignId
  /\ \E id \in DOMAIN dbFile[1].instances :
       /\ dbFile[1].instances[id].lastActive > dbFile[1].instances[id].lastHeartbeat
       /\ dbFile[1].instances[id].connectionCount = 1
  /\ dbFile[1].statistics =
       [connectApply(initialDBValue(1), ForeignId, "u1", "Unknown", "ip1", 1).statistics
          EXCEPT !.currentConnections = dbFile[1].statistics.currentConnections,
                 !.peakConnections = dbFile[1].statistics.peakConnections,
                 !.dailyActive = dbFile[1].statistics.dailyActive]

\* C27: Track never adds an entry to or removes one from `instances`; a Track
\* whose userId is unknown creates the User record (firstSeen = lastActive = now,
\* counters starting at 0 and then counting this event) whether or not its
\* instanceId is known.
C27_TrackCreatesUserOnly ==
  [][\A p \in Handlers :
       (TrackPersisted(p) /\ h[p].before # << >>)
       => LET b == Persisted(h[p].before[1])
              a == Persisted(dbFile')
              r == h[p].req
          IN /\ DOMAIN a.instances = DOMAIN b.instances
             /\ ~Has(b.users, r.userId)
                => /\ Has(a.users, r.userId)
                   /\ a.users[r.userId] =
                        [newUser(r.userId, RequestedId(p), h[p].now) EXCEPT
                           !.totalMessages = IF r.eventType = <<"message">> THEN 1 ELSE 0,
                           !.totalReactions =
                              IF r.eventType = <<"message_reaction">> THEN 1 ELSE 0]
    ]_vars

\* C27 witness: u1 was created by a Track that named an instance id the dataset
\* does not hold, u2 by a Track that named the instance of u1's Connect.
C27_Witness ==
  /\ AllIdle
  /\ dbFile # << >>
  /\ DOMAIN dbFile[1].users = {"u1", "u2"}
  /\ dbFile[1].users["u1"].instances[1] = ForeignId
  /\ ~Has(dbFile[1].instances, ForeignId)
  /\ \E id \in DOMAIN dbFile[1].instances :
       /\ dbFile[1].instances[id].userId = "u1"
       /\ dbFile[1].users["u2"].instances = <<id>>
  /\ Cardinality(DOMAIN dbFile[1].instances) = 1

(***************************************************************************)
(* v1.3.0: sessions and classifier fields.                                 *)
(***************************************************************************)

\* the connection and disconnection events recorded for instance id, in order
EventsOf(db, id) ==
  LET of(e) == e.instanceId = id
  IN SelectSeq(db.statistics.connectionEvents, of)

\* the events are Connect, Disconnect, Connect, Disconnect, ...: every Disconnect
\* closes the session the Connect before it opened
Alternating(ev) ==
  \A n \in 1..Len(ev) : ev[n].type = IF n % 2 = 1 THEN "connection" ELSE "disconnection"

\* end - start of the sessions that 2 * k alternating events have opened and closed
EndedDurations(ev) == [k \in 1..(Len(ev) \div 2) |-> ev[2 * k].timestamp - ev[2 * k - 1].timestamp]

\* C28: after a Disconnect on a known instance has been persisted, the
\* instance's avgSessionDuration equals the arithmetic mean of (end - start) over
\* all of its sessions that have ended, the session just closed included.
C28_AvgSessionDuration ==
  dbFile_v13 # << >> =>
    \A id \in DOMAIN dbFile_v13[1].instances :
      LET ev == EventsOf(dbFile_v13[1], id)
          avg == dbFile_v13[1].instances[id].avgSessionDuration
      IN (Alternating(ev) /\ Len(ev) > 0 /\ Len(ev) % 2 = 0)
         => avg.num * (Len(ev) \div 2) = SumSeq(EndedDurations(ev)) * avg.den

\* the request handled in this step is of the given kind and names instance id
Handles_v13(kind, id) ==
  /\ Len(handled_v13') = Len(handled_v13) + 1
  /\ handled_v13'[Len(handled_v13')].kind = kind
  /\ handled_v13'[Len(handled_v13')].instanceId = <<id>>

\* C29: a Connect on an instance whose status is disconnected closes nothing:
\* the end and duration that the preceding Disconnect recorded for the previous
\* session are the same after the Connect as before it.
C29_ReconnectClosesNothing ==
  [][\A id \in InstanceIds_v13 :
       (/\ Handles_v13("connect", id)
        /\ dbFile_v13 # << >>
        /\ Has(dbFile_v13[1].instances, id)
        /\ dbFile_v13[1].instances[id].status = "disconnected"
        /\ dbFile_v13[1].instances[id].currentSession.end # << >>)
       => LET b == dbFile_v13[1].instances[id]
              a == dbFile_v13'[1].instances[id]
              previous == Len(b.sessions)
          IN /\ Len(a.sessions) = previous + 1
             /\ a.sessions[previous].start = b.currentSession.start
             /\ a.sessions[previous].end = b.currentSession.end
             /\ a.sessions[previous].duration = b.currentSession.duration
    ]_vars

\* C30: after every Connect and every Disconnect on an instance (the first
\* Connect that creates it included), the stored qualityIssues equals the tag
\* set the rule gives for the instance's connectionCount, firstSeen,
\* avgSessionDuration and ipHistory at that time, and the stored healthScore
\* equals healthScore computed from those tags and the current counters.
C30_ClassifierFieldsAreFresh ==
  [][\A id \in InstanceIds_v13 :
       ((Handles_v13("connect", id) \/ Handles_v13("disconnect", id))
        /\ dbFile_v13' # << >>
        /\ Has(dbFile_v13'[1].instances, id))
       => LET a == dbFile_v13'[1].instances[id]
              tags == detectConnectionQuality(a, now_v13)
          IN /\ a.qualityIssues = tags
             /\ a.healthScore = calculateHealthScore([a EXCEPT !.qualityIssues = tags])
    ]_vars

\* C31: after every Connect and every Disconnect, sessionMetrics.failedConnections
\* equals the number of recorded disconnection events whose reason is not
\* normal, the count from which stabilityScore and connectionQuality are
\* computed in that step; and minDuration <= avgDuration <= maxDuration.
C31_SessionMetrics ==
  [][\A id \in InstanceIds_v13 :
       ((Handles_v13("connect", id) \/ Handles_v13("disconnect", id))
        /\ dbFile_v13' # << >>)
       => LET s == dbFile_v13'[1].statistics
              m == s.sessionMetrics
          IN /\ m.failedConnections = Len(SelectSeq(s.connectionEvents, isFailure))
             /\ m.minDuration * m.avgDuration.den <= m.avgDuration.num
             /\ m.avgDuration.num <= m.maxDuration * m.avgDuration.den
    ]_vars

(***************************************************************************)
(* v2.1.0: users.                                                          *)
(***************************************************************************)

\* C32: after any Connect(userId, ...) the user record exists, its `instances`
\* contains the resolved instance id, and its lastActive is the connect time, so
\* a stats query made immediately after counts that user among activeUsers.
C32_ConnectUpsertsUser ==
  [][\A p \in Handlers :
       (Completes(p) /\ h[p].pc = "saveDB" /\ h[p].req.kind = "connect")
       => LET a == Persisted(dbFile')
              u == h[p].req.userId
          IN /\ Has(a.users, u)
             /\ Includes(a.users[u].instances, h[p].instanceId[1])
             /\ a.users[u].lastActive = h[p].now
             /\ (h[p].now - a.users[u].lastActive) < TIMEOUTS_concurrent
    ]_vars

(***************************************************************************)
(* v2.1.0: interleaved handlers.                                           *)
(***************************************************************************)

\* C33: a Disconnect or SystemInfo for an unknown instance id stays a no-op when
\* it interleaves with another mutating handler: every instance that another
\* handler's save created while the request was in flight is still in the
\* persisted dataset after the request completes.
C33_UnknownIdNoOpKeepsOthers ==
  [][\A q \in Handlers :
       (/\ Completes(q)
        /\ h[q].pc = "saveDB"
        /\ h[q].req.kind \in {"disconnect", "systemInfo"}
        /\ ~Has(h[q].pending[1].instances, RequestedId(q)))
       => \A x \in h[q].missed : Has(Persisted(dbFile').instances, x)
    ]_vars

\* C34: cleanupInactiveInstances removes an instance only if it has been
\* inactive beyond TIMEOUTS.disconnected: an instance whose persisted lastActive
\* is less than TIMEOUTS.disconnected old when the cleanup saves is still in the
\* dataset afterwards, and the cleanup changes nothing else (users, statistics,
\* settings, the instances that stay).
C34_CleanupRemovesStaleOnly ==
  [][\A p \in Handlers :
       (Completes(p) /\ h[p].pc = "saveDB" /\ h[p].req.kind = "cleanup" /\ dbFile # << >>)
       => LET b == dbFile[1]
              a == dbFile'[1]
          IN /\ \A id \in DOMAIN b.instances :
                  (clock - b.instances[id].lastActive) < TIMEOUTS_disconnected
                  => Has(a.instances, id) /\ a.instances[id] = b.instances[id]
             /\ DOMAIN a.instances \subseteq DOMAIN b.instances
             /\ a.users = b.users
             /\ a.statistics = b.statistics
             /\ a.settings = b.settings
    ]_vars

(***************************************************************************)
(* Query endpoints: active and inactive instances                          *)
(***************************************************************************)
\* C35: whatever the dataset and the query time, GET /api/stats,
\* /api/instances and /api/connection-health (v2.1.0 and v2.0.0) put every
\* instance in exactly one of the active and the inactive set, instances
\* without a lastHeartbeat included, so the two counts add up to the number
\* of instances.
C35_ActiveInactivePartition ==
  view # NoView
  => /\ view.activeInstances \cap view.inactiveInstances = {}
     /\ view.activeInstances \cup view.inactiveInstances = DOMAIN view.instances
     /\ view.active + view.inactive = view.total

\* GET /api/stats of v2.1.0 has answered for two instances with fresh
\* lastActive, both connected: one with a fresh heartbeat, one with no
\* lastHeartbeat at all
C35_Witness ==
  /\ view # NoView
  /\ view.endpoint = "stats"
  /\ \E a, b \in DOMAIN view.instances :
       /\ a \in view.activeInstances
       /\ b \in view.inactiveInstances
       /\ ~Has(view.instances[b], "lastHeartbeat")
       /\ view.instances[b].status = "connected"
       /\ (view.now - view.instances[b].lastActive) < TIMEOUTS_concurrent

(***************************************************************************)
(* v2.1.0: statistics of the persisted dataset, interleaved handlers       *)
(***************************************************************************)
\* C36: in every execution, interleaved handlers included, every dataset
\* in db.json has statistics.peakConnections >= statistics.currentConnections.
C36_PeakAtLeastCurrentPersisted ==
  dbFile # << >>
  => dbFile[1].statistics.peakConnections >= dbFile[1].statistics.currentConnections

\* two handlers have been in flight together and db.json holds a dataset
\* with a connection counted
C36_Witness ==
  /\ dbFile # << >>
  /\ dbFile[1].statistics.currentConnections >= 1
  /\ \A p \in Handlers : h[p].pc # "idle"

\* the sum of totalMessages over all users of a dataset
RECURSIVE SumUserMessages(_, _)
SumUserMessages(users, ids) ==
  IF ids = {} THEN 0
  ELSE LET u == CHOOSE x \in ids : TRUE
       IN users[u].totalMessages + SumUserMessages(users, ids \ {u})

\* C37: in every execution, interleaved handlers included, every dataset in
\* db.json has statistics.totalMessages equal to the sum of totalMessages
\* over its users.
C37_TotalMessagesIsSumOverUsers ==
  dbFile # << >>
  => dbFile[1].statistics.totalMessages
       = SumUserMessages(dbFile[1].users, DOMAIN dbFile[1].users)

\* db.json counts messages of two users, and a handler is in flight
C37_Witness ==
  /\ dbFile # << >>
  /\ \E u1, u2 \in DOMAIN dbFile[1].users :
       /\ u1 # u2
       /\ dbFile[1].users[u1].totalMessages >= 1
       /\ dbFile[1].users[u2].totalMessages >= 1
  /\ \E p \in Handlers : h[p].pc # "idle"

(***************************************************************************)
(* v2.0.0: statistics of the persisted dataset                             *)
(***************************************************************************)
\* C38: in v2.0.0 every dataset written to db.json has
\* statistics.totalConnections equal to its number of instances, and a
\* Connect that resolves to an instance the dataset already holds leaves
\* totalConnections unchanged.
C38_TotalConnectionsCountsInstances ==
  [][/\ dbFile_v20' # << >>
        => dbFile_v20'[1].statistics.totalConnections
             = Cardinality(DOMAIN dbFile_v20'[1].instances)
     /\ (/\ nreq_v20' = nreq_v20 + 1
         /\ response_v20'.kind = "connect"
         /\ response_v20'.status = 200
         /\ Has(Persisted_v20(dbFile_v20).instances, response_v20'.instanceId))
        => Persisted_v20(dbFile_v20').statistics.totalConnections
             = Persisted_v20(dbFile_v20).statistics.totalConnections
    ]_vars

\* a Connect has just resolved to an instance that was already stored: the
\* instance has two connections counted and the dataset still counts one
\* instance created
C38_Witness ==
  /\ dbFile_v20 # << >>
  /\ response_v20.kind = "connect"
  /\ response_v20.status = 200
  /\ Has(dbFile_v20[1].instances, response_v20.instanceId)
  /\ dbFile_v20[1].instances[response_v20.instanceId].connectionCount >= 2
  /\ dbFile_v20[1].statistics.totalConnections = 1

(***************************************************************************)
(* v1.3.0: connectionEvents and the per-instance counters                  *)
(***************************************************************************)
isConnectionEvent(e) == e.type = "connection"
isDisconnectionEvent(e) == e.type = "disconnection"

\* the sum of a counter over the instances `ids` of a dataset
RECURSIVE SumOverInstances_v13(_, _, _)
SumOverInstances_v13(instances, ids, field) ==
  IF ids = {} THEN 0
  ELSE LET i == CHOOSE x \in ids : TRUE
       IN instances[i][field] + SumOverInstances_v13(instances, ids \ {i}, field)

\* C39: in v1.3.0, for events handled one at a time, every dataset written
\* to db.json has as many connectionEvents of type connection as the
\* instances' connectionCount add up to, and as many of type disconnection
\* as statistics.disconnections and as the instances' disconnectionCount
\* add up to; and connectionEvents only grows at its end.
C39_EventsMatchCounters ==
  [][dbFile_v13' # << >>
     => LET a == dbFile_v13'[1]
            ev == a.statistics.connectionEvents
            old == IF dbFile_v13 = << >> THEN << >>
                   ELSE dbFile_v13[1].statistics.connectionEvents
        IN /\ Len(SelectSeq(ev, isConnectionEvent))
                = SumOverInstances_v13(a.instances, DOMAIN a.instances, "connectionCount")
           /\ Len(SelectSeq(ev, isDisconnectionEvent)) = a.statistics.disconnections
           /\ Len(SelectSeq(ev, isDisconnectionEvent))
                = SumOverInstances_v13(a.instances, DOMAIN a.instances, "disconnectionCount")
           /\ Len(old) <= Len(ev)
           /\ SubSeq(ev, 1, Len(old)) = old
    ]_vars

\* db.json holds two instances, one of them connected once and disconnected
\* twice in a row
C39_Witness ==
  /\ dbFile_v13 # << >>
  /\ Cardinality(DOMAIN dbFile_v13[1].instances) = 2
  /\ \E i \in DOMAIN dbFile_v13[1].instances :
       /\ dbFile_v13[1].instances[i].disconnectionCount >= 2
       /\ dbFile_v13[1].instances[i].connectionCount = 1

====
